---- MODULE Spec2Model ----
(***************************************************************************)
(* avto.net scraper: the crawl frontier (CrawlerStats.deduplicateUrls),    *)
(* the search-results and detail handlers of the router, the crawler's     *)
(* limits, retries and failedRequestHandler, the page extractors, and the  *)
(* post-crawl mergeAndExport stage.                                        *)
(*                                                                         *)
(* A JavaScript string is a sequence of one-token strings, so that the     *)
(* regular expressions and toLowerCase of the source are computed token by *)
(* token.  A JavaScript value is a tagged tuple: Null, Str(s), Num(n),     *)
(* Bool(b), Obj(tag).  A JavaScript object is a function from its keys to  *)
(* values.                                                                 *)
(***************************************************************************)
EXTENDS Integers, Sequences, FiniteSets, TLC

VARIABLES
    seenUrls,          \* CrawlerStats.seenUrls: set of normalized URLs
    pagesProcessed,    \* CrawlerStats.pagesProcessed
    listingsFound,     \* CrawlerStats.listingsFound
    listingsEnqueued,  \* CrawlerStats.listingsEnqueued
    detailsScraped,    \* CrawlerStats.detailsScraped
    errors,            \* CrawlerStats.errors
    dataset,           \* the default Dataset: sequence of pushed records
    requests,          \* the request queue: every request ever added, in order
    fetched,           \* number of requests already handed to a handler
    handled,           \* number of requests whose handler has returned
    inflight,          \* the handlers that are running (suspended at an await)
    phase,             \* main.ts: "crawl" while crawler.run runs, then "done" or "failed"
    combined,          \* mergeAndExport's output array (with provenance)
    dedupLog,          \* history: one entry per deduplicateUrls call
    detailEnqueues,    \* history: one entry per enqueueLinks({label: 'DETAIL'})
    reclaimed,         \* requests given back to the queue for a retry, in order
    pushedBy,          \* history: for each record of dataset, who pushed it
    exports,           \* number of times mergeAndExport has run
    config,            \* the CrawlerConfig of the run
    faults,            \* rejections the automation layer may still produce
    probe              \* input and result of a function applied on its own

vars == <<seenUrls, pagesProcessed, listingsFound, listingsEnqueued,
          detailsScraped, errors, dataset, requests, fetched, handled,
          inflight, phase, combined, dedupLog, detailEnqueues, reclaimed, pushedBy,
          exports, config, faults, probe>>

crawlVars == <<seenUrls, pagesProcessed, listingsFound, listingsEnqueued,
               detailsScraped, errors, dataset, requests, fetched, handled,
               inflight, phase, combined, dedupLog, detailEnqueues, reclaimed, pushedBy,
               exports, config, faults>>

envVars == <<config, faults, probe>>

statsVars == <<pagesProcessed, listingsFound, listingsEnqueued, detailsScraped, errors>>

-----------------------------------------------------------------------------
(* Bounds of the model *)

\* config.maxRequests (maxRequestsPerCrawl) of the modelled run
MaxRequests == 3
\* config.maxConcurrency of the modelled run
MaxConcurrency == 2
\* listing cards (.GO-Results-Row) the site shows over the whole run
MaxListings == 2
\* config.maxRetries (maxRequestRetries) of the modelled run
MaxRetries == 1
\* rejections of the automation layer (navigation, enqueueLinks, page.evaluate)
\* over a run
MaxFaults == 2
\* config.maxDetails of a run under a detail limit
MaxDetails == 1
\* config.maxPages of the modelled run
MaxPages == 1
\* length of the strings drawn for normalized and deduplicateUrls on their own
MaxLen == 3
\* query parameters of the URLs drawn for extractListingId on its own
MaxParams == 2

-----------------------------------------------------------------------------
(* JavaScript values *)

Null == <<"null">>
Undefined == <<"undefined">>
Str(s) == <<"str", s>>
Num(n) == <<"num", n>>
Bool(b) == <<"bool", b>>
Obj(t) == <<"obj", t>>

\* JavaScript truthiness of a value: null, undefined, '', 0 and false are falsy
Truthy(v) ==
    CASE v[1] = "str" -> v[2] # <<>>
      [] v[1] = "num" -> v[2] # 0
      [] v[1] = "bool" -> v[2]
      [] v[1] = "obj" -> TRUE
      [] OTHER -> FALSE

\* property read r[k] of an object: undefined when the key is absent
Get(r, k) == IF k \in DOMAIN r THEN r[k] ELSE Undefined

\* object spread { ...a, ...b }
Spread(a, b) == [k \in (DOMAIN a) \cup (DOMAIN b) |-> IF k \in DOMAIN b THEN b[k] ELSE a[k]]

-----------------------------------------------------------------------------
(* Strings *)

Digits == {"1", "2"}

\* String.prototype.toLowerCase on one token
LowerChar(c) ==
    CASE c = "I" -> "i"
      [] c = "D" -> "d"
      [] c = "X" -> "x"
      [] c = "A" -> "a"
      [] c = "DETAILS.ASP" -> "details.asp"
      [] OTHER -> c

toLowerCase(s) == [k \in 1..Len(s) |-> LowerChar(s[k])]

\* url.replace(/\/+$/, '')
RECURSIVE stripTrailingSlashes(_)
stripTrailingSlashes(s) ==
    IF s # <<>> /\ s[Len(s)] = "/"
    THEN stripTrailingSlashes(SubSeq(s, 1, Len(s) - 1))
    ELSE s

\* mutant: the expression /\/$/ in place of /\/+$/ (one trailing slash stripped)
normalizedOneSlash(url) ==
    toLowerCase(IF url # <<>> /\ url[Len(url)] = "/" THEN SubSeq(url, 1, Len(url) - 1) ELSE url)

\* stats.ts:52  url.replace(/\/+$/, '').toLowerCase()
normalized(url) == toLowerCase(stripTrailingSlashes(url))

\* mutant: the expression without its i flag
idMatchAtCaseSensitive(s, k) ==
    /\ k + 4 <= Len(s)
    /\ s[k] \in {"?", "&"}
    /\ s[k + 1] = "i"
    /\ s[k + 2] = "d"
    /\ s[k + 3] = "="
    /\ s[k + 4] \in {"1", "2"}

\* the regular expression /[?&]id=(\d+)/i matches at position k of s
idMatchAt(s, k) ==
    /\ k + 4 <= Len(s)
    /\ s[k] \in {"?", "&"}
    /\ LowerChar(s[k + 1]) = "i"
    /\ LowerChar(s[k + 2]) = "d"
    /\ s[k + 3] = "="
    /\ s[k + 4] \in Digits

\* the greedy capture group (\d+) starting at position k
RECURSIVE digitRun(_, _)
digitRun(s, k) ==
    IF k <= Len(s) /\ s[k] \in Digits
    THEN <<s[k]>> \o digitRun(s, k + 1)
    ELSE <<>>

\* url.match(/[?&]id=(\d+)/i)?.[1]: the capture of the leftmost match, or
\* Undefined when the expression matches nowhere
idMatch(s) ==
    LET hits == {k \in 1..Len(s) : idMatchAt(s, k)}
    IN  IF hits = {} THEN Undefined
        ELSE LET k == CHOOSE h \in hits : \A g \in hits : h <= g
             IN  Str(digitRun(s, k + 4))

\* routes: extractListingId(url) = match?.[1] ?? ''
extractListingId(url) ==
    LET m == idMatch(url) IN IF m = Undefined THEN Str(<<>>) ELSE m

\* extractSearchListings: listing.listingId = idMatch?.[1] ?? null
searchListingId(href) ==
    LET m == idMatch(href) IN IF m = Undefined THEN Null ELSE m

-----------------------------------------------------------------------------
(* CrawlerStats.deduplicateUrls *)

\* mutant: the loop without this.seenUrls.add(normalized)
RECURSIVE dedupLoopNoAdd(_, _, _, _)
dedupLoopNoAdd(urls, k, seen, newUrls) ==
    IF k > Len(urls) THEN [seen |-> seen, newUrls |-> newUrls]
    ELSE IF normalized(urls[k]) \notin seen
         THEN dedupLoopNoAdd(urls, k + 1, seen, Append(newUrls, urls[k]))
         ELSE dedupLoopNoAdd(urls, k + 1, seen, newUrls)

\* the loop of deduplicateUrls from index k, with the set and the result so far
RECURSIVE dedupLoop(_, _, _, _)
dedupLoop(urls, k, seen, newUrls) ==
    IF k > Len(urls) THEN [seen |-> seen, newUrls |-> newUrls]
    ELSE LET n == normalized(urls[k])
         IN  IF n \notin seen
             THEN dedupLoop(urls, k + 1, seen \cup {n}, Append(newUrls, urls[k]))
             ELSE dedupLoop(urls, k + 1, seen, newUrls)

\* mutant: a set private to each call in place of this.seenUrls
deduplicateUrlsPerCall(urls, seen) ==
    LET r == dedupLoop(urls, 1, {}, <<>>)
    IN  [seen |-> seen \cup r.seen, newUrls |-> r.newUrls]

deduplicateUrls(urls, seen) == dedupLoop(urls, 1, seen, <<>>)

-----------------------------------------------------------------------------
(* Pages of the site, as the extractors see them *)

\* detail links (a[href*="details.asp"]) a listing card can carry
U1 == <<"details.asp", "?", "i", "d", "=", "1">>
U1v == <<"DETAILS.ASP", "?", "I", "D", "=", "1", "/">>
U1x == <<"details.asp", "?", "x", "=", "2", "&", "i", "d", "=", "1">>
U2 == <<"details.asp", "?", "i", "d", "=", "2">>
U0 == <<"details.asp">>
DetailUrls == {U1, U1v, U1x, U2, U0}

\* what a card yields for its detail link: an href, or nothing (no link)
CardLinks == {Str(u) : u \in DetailUrls} \cup {Null}

\* search-results URLs: the start URL and the pages its pagination links to
R1 == <<"results.asp">>
R2 == <<"results.asp", "?", "stran", "=", "2">>
SearchUrls == {R1, R2}

\* extractSearchListings: the SearchListing built for one card whose detail
\* link is link (Null when the card has no details.asp link)
SearchListing(link) ==
    [title |-> Str(<<"Audi A4">>),
     detailUrl |-> link,
     listingId |-> IF link = Null THEN Null ELSE searchListingId(link[2]),
     price |-> Str(<<"9.000">>),
     thumbnail |-> Str(<<"thumb.jpg">>),
     year |-> Str(<<"2019">>),
     mileage |-> Str(<<"150000">>),
     fuel |-> Str(<<"diesel">>),
     transmission |-> Null,
     engine |-> Null]

\* extractSearchListings: one SearchListing per card (links[k] is the detail
\* link of card k), in page order; when page.evaluate rejects, the catch
\* returns the empty list.  threw tells whether the call rejects
extractSearchListings(links, rejected) ==
    [threw |-> FALSE,
     value |-> IF rejected THEN <<>>
               ELSE [k \in 1..Len(links) |-> SearchListing(links[k])]]

\* handleSearchResults with every summary recorded as of the first page
SummaryRecordFirstPage(listing, pageNum) ==
    Spread(listing, [searchPage |-> Num(1), label |-> Str(<<"search-listing">>)])

\* handleSearchResults: the record pushed for a listing of page pageNum
\* Dataset.pushData({ ...listing, searchPage: pageNum, label: 'search-listing' })
SummaryRecord(listing, pageNum) ==
    Spread(listing, [searchPage |-> Num(pageNum), label |-> Str(<<"search-listing">>)])

\* extractDescription without its try / catch: a rejecting page.evaluate rejects the call
extractDescriptionUnguarded(dom, failing) ==
    IF "description" \in failing THEN [threw |-> TRUE, value |-> Null]
    ELSE [threw |-> FALSE, value |-> dom.description]

\* extractListingDetails: the records the detail extractor returns; a page
\* with a heading and a spec table, and a page where title and specs are missing
DetailPages ==
    {[title |-> Str(<<"BMW 320d">>), price |-> Obj("price"), description |-> Null,
      year |-> Str(<<"2020">>), mileage |-> Str(<<"99000">>), fuelType |-> Str(<<"diesel">>),
      equipment |-> Obj("equipment"), images |-> Obj("images"), seller |-> Obj("seller")],
     [title |-> Null, price |-> Obj("price"), description |-> Null,
      equipment |-> Obj("equipment"), images |-> Obj("images"), seller |-> Obj("seller")]}

\* DETAIL handler: data.url, data.listingId and data.scrapedAt set on the record
DetailRecord(data, url) ==
    Spread(data, [url |-> Str(url), listingId |-> extractListingId(url),
                  scrapedAt |-> Str(<<"now">>)])

-----------------------------------------------------------------------------
(* mergeAndExport *)

RECURSIVE SortedSeq(_)
SortedSeq(S) ==
    IF S = {} THEN <<>>
    ELSE LET m == CHOOSE x \in S : \A y \in S : x <= y
         IN  <<m>> \o SortedSeq(S \ {m})

\* items.filter((i) => i.label === 'search-listing'), as dataset indices
searchListings(items) ==
    SortedSeq({k \in 1..Len(items) : Get(items[k], "label") = Str(<<"search-listing">>)})

\* items.filter((i) => i.url && !i.label), as dataset indices
detailPages(items) ==
    SortedSeq({k \in 1..Len(items) :
                 Truthy(Get(items[k], "url")) /\ ~Truthy(Get(items[k], "label"))})

\* A JavaScript Map is the sequence of its entries in insertion order.
mapHas(m, key) == \E p \in 1..Len(m) : m[p].key = key
mapPos(m, key) == CHOOSE p \in 1..Len(m) : m[p].key = key
\* Map.set: a present key keeps its place and takes the new value
mapSet(m, key, val, d) ==
    IF mapHas(m, key)
    THEN [m EXCEPT ![mapPos(m, key)] = [key |-> key, val |-> val, d |-> d]]
    ELSE Append(m, [key |-> key, val |-> val, d |-> d])
mapDelete(m, key) ==
    IF mapHas(m, key)
    THEN LET p == mapPos(m, key) IN SubSeq(m, 1, p - 1) \o SubSeq(m, p + 1, Len(m))
    ELSE m

\* main.ts:119-123: index detail data by listing ID
RECURSIVE buildDetailMap(_, _, _, _)
buildDetailMap(items, ds, k, m) ==
    IF k > Len(ds) THEN m
    ELSE LET detail == items[ds[k]]
             id == Get(detail, "listingId")
         IN  IF Truthy(id)
             THEN buildDetailMap(items, ds, k + 1, mapSet(m, id, detail, ds[k]))
             ELSE buildDetailMap(items, ds, k + 1, m)

\* mutant: the join written { ...detail, ...listing } (summary wins)
RECURSIVE mergeLoopSummaryWins(_, _, _, _, _)
mergeLoopSummaryWins(items, ss, k, m, out) ==
    IF k > Len(ss) THEN [map |-> m, out |-> out]
    ELSE LET listing == items[ss[k]]
             id == Get(listing, "listingId")
         IN  IF Truthy(id) /\ mapHas(m, id)
             THEN LET e == m[mapPos(m, id)]
                      rec == Spread(Spread(e.val, listing),
                                    [searchPage |-> Get(listing, "searchPage"),
                                     thumbnail |-> Get(listing, "thumbnail")])
                  IN  mergeLoopSummaryWins(items, ss, k + 1, mapDelete(m, id),
                                           Append(out, [rec |-> rec, s |-> ss[k], d |-> e.d]))
             ELSE LET rec == Spread(listing, [detailScraped |-> Bool(FALSE)])
                  IN  mergeLoopSummaryWins(items, ss, k + 1, m,
                                           Append(out, [rec |-> rec, s |-> ss[k], d |-> 0]))

\* mutant: detailScraped: false set on the summary before the join as well
RECURSIVE mergeLoopFlagAll(_, _, _, _, _)
mergeLoopFlagAll(items, ss, k, m, out) ==
    IF k > Len(ss) THEN [map |-> m, out |-> out]
    ELSE LET listing == Spread(items[ss[k]], [detailScraped |-> Bool(FALSE)])
             id == Get(listing, "listingId")
         IN  IF Truthy(id) /\ mapHas(m, id)
             THEN LET e == m[mapPos(m, id)]
                      rec == Spread(Spread(listing, e.val),
                                    [searchPage |-> Get(listing, "searchPage"),
                                     thumbnail |-> Get(listing, "thumbnail")])
                  IN  mergeLoopFlagAll(items, ss, k + 1, mapDelete(m, id),
                                       Append(out, [rec |-> rec, s |-> ss[k], d |-> e.d]))
             ELSE mergeLoopFlagAll(items, ss, k + 1, m,
                                   Append(out, [rec |-> listing, s |-> ss[k], d |-> 0]))

\* mutant: the join without detailMap.delete(id)
RECURSIVE mergeLoopNoDelete(_, _, _, _, _)
mergeLoopNoDelete(items, ss, k, m, out) ==
    IF k > Len(ss) THEN [map |-> m, out |-> out]
    ELSE LET listing == items[ss[k]]
             id == Get(listing, "listingId")
         IN  IF Truthy(id) /\ mapHas(m, id)
             THEN LET e == m[mapPos(m, id)]
                      rec == Spread(Spread(listing, e.val),
                                    [searchPage |-> Get(listing, "searchPage"),
                                     thumbnail |-> Get(listing, "thumbnail")])
                  IN  mergeLoopNoDelete(items, ss, k + 1, m,
                                        Append(out, [rec |-> rec, s |-> ss[k], d |-> e.d]))
             ELSE LET rec == Spread(listing, [detailScraped |-> Bool(FALSE)])
                  IN  mergeLoopNoDelete(items, ss, k + 1, m,
                                        Append(out, [rec |-> rec, s |-> ss[k], d |-> 0]))

\* main.ts:127-145: one output record per search listing.  An output entry
\* holds the record (rec) and, as provenance, the dataset indices of the
\* summary (s) and of the detail record (d) it was built from, 0 for none.
RECURSIVE mergeLoop(_, _, _, _, _)
mergeLoop(items, ss, k, m, out) ==
    IF k > Len(ss) THEN [map |-> m, out |-> out]
    ELSE LET listing == items[ss[k]]
             id == Get(listing, "listingId")
         IN  IF Truthy(id) /\ mapHas(m, id)
             THEN LET e == m[mapPos(m, id)]
                      rec == Spread(Spread(listing, e.val),
                                    [searchPage |-> Get(listing, "searchPage"),
                                     thumbnail |-> Get(listing, "thumbnail")])
                  IN  mergeLoop(items, ss, k + 1, mapDelete(m, id),
                                Append(out, [rec |-> rec, s |-> ss[k], d |-> e.d]))
             ELSE LET rec == Spread(listing, [detailScraped |-> Bool(FALSE)])
                  IN  mergeLoop(items, ss, k + 1, m,
                                Append(out, [rec |-> rec, s |-> ss[k], d |-> 0]))

\* mutant: ids read as String(x.listingId ?? '') and used as keys without
\* the truthiness tests if (id) and id ? ... : undefined
coercedId(r) ==
    LET id == Get(r, "listingId") IN IF id \in {Null, Undefined} THEN Str(<<>>) ELSE id
RECURSIVE buildDetailMapCoerced(_, _, _, _)
buildDetailMapCoerced(items, ds, k, m) ==
    IF k > Len(ds) THEN m
    ELSE buildDetailMapCoerced(items, ds, k + 1,
                               mapSet(m, coercedId(items[ds[k]]), items[ds[k]], ds[k]))
RECURSIVE mergeLoopCoerced(_, _, _, _, _)
mergeLoopCoerced(items, ss, k, m, out) ==
    IF k > Len(ss) THEN [map |-> m, out |-> out]
    ELSE LET listing == items[ss[k]]
             id == coercedId(listing)
         IN  IF mapHas(m, id)
             THEN LET e == m[mapPos(m, id)]
                      rec == Spread(Spread(listing, e.val),
                                    [searchPage |-> Get(listing, "searchPage"),
                                     thumbnail |-> Get(listing, "thumbnail")])
                  IN  mergeLoopCoerced(items, ss, k + 1, mapDelete(m, id),
                                       Append(out, [rec |-> rec, s |-> ss[k], d |-> e.d]))
             ELSE LET rec == Spread(listing, [detailScraped |-> Bool(FALSE)])
                  IN  mergeLoopCoerced(items, ss, k + 1, m,
                                       Append(out, [rec |-> rec, s |-> ss[k], d |-> 0]))
mergeAndExportCoerced(items) ==
    LET ss == searchListings(items)
        ds == detailPages(items)
        r == mergeLoopCoerced(items, ss, 1, buildDetailMapCoerced(items, ds, 1, <<>>), <<>>)
    IN  r.out \o [p \in 1..Len(r.map) |-> [rec |-> r.map[p].val, s |-> 0, d |-> r.map[p].d]]

\* main.ts:109-150: the combined array
mergeAndExport(items) ==
    LET ss == searchListings(items)
        ds == detailPages(items)
        detailMap == buildDetailMap(items, ds, 1, <<>>)
        r == mergeLoop(items, ss, 1, detailMap, <<>>)
    IN  r.out \o [p \in 1..Len(r.map) |-> [rec |-> r.map[p].val, s |-> 0, d |-> r.map[p].d]]

-----------------------------------------------------------------------------
(* The crawl: request queue, handlers, end of run *)

\* request.userData['pageNum'] || 1  (a request without userData carries 0 here)
pageNumOf(req) == IF req.pageNum = 0 THEN 1 ELSE req.pageNum

\* a request of the queue.  retryCount is Crawlee's request.retryCount; by and
\* byAtt (the request and the attempt whose handler added it) and outcome (how
\* its handling ended) are history
Request(url, label, pageNum, by, byAtt) ==
    [url |-> url, label |-> label, pageNum |-> pageNum, retryCount |-> 0,
     by |-> by, byAtt |-> byAtt, outcome |-> "none"]

\* enqueueLinks({ urls, label, userData }) of the handler of request by: one
\* request per URL, in order; the request queue drops a URL it already holds
\* (same uniqueKey)
RECURSIVE enqueueLinks(_, _, _, _, _, _)
enqueueLinks(reqs, urls, k, label, pageNum, by) ==
    IF k > Len(urls) THEN reqs
    ELSE IF \E p \in 1..Len(reqs) : reqs[p].url = urls[k]
         THEN enqueueLinks(reqs, urls, k + 1, label, pageNum, by)
         ELSE enqueueLinks(Append(reqs, Request(urls[k], label, pageNum, by, reqs[by].retryCount)),
                           urls, k + 1, label, pageNum, by)

\* listings.map((l) => l.detailUrl).filter((url) => !!url)
RECURSIVE listingUrlsOf(_, _)
listingUrlsOf(listings, k) ==
    IF k > Len(listings) THEN <<>>
    ELSE IF Truthy(listings[k].detailUrl)
         THEN <<listings[k].detailUrl[2]>> \o listingUrlsOf(listings, k + 1)
         ELSE listingUrlsOf(listings, k + 1)

\* sequences over S of length at most n
SeqsUpTo(S, n) == UNION {[1..m -> S] : m \in 0..n}

\* listing cards extracted in this run and not pushed yet, plus those pushed
cardsSoFar ==
    LET pending(h) == IF h.pc = "push" THEN Len(h.listings) - h.i + 1 ELSE 0
        RECURSIVE sum(_)
        sum(H) == IF H = {} THEN 0
                  ELSE LET h == CHOOSE x \in H : TRUE IN pending(h) + sum(H \ {h})
    IN  Len(searchListings(dataset)) + sum(inflight)

isSearch(h) == requests[h.req].label \in {"START", "LIST"}
isDetail(h) == requests[h.req].label = "DETAIL"

\* the attempt of its request that handler h is (request.retryCount)
attOf(h) == requests[h.req].retryCount

\* the handler of request r has ended with outcome o
ended(reqs, r, o) == [reqs EXCEPT ![r].outcome = o]

\* the detail URLs a search page may still schedule under setMaxDetails(n):
\* none for -1, at most n over the run (counted by stats.getEnqueuedCount())
\* for n > 0, all of them for 0
limitDetails(newUrls, maxDetails, enqueuedCount) ==
    IF maxDetails = -1 THEN <<>>
    ELSE IF maxDetails > 0
         THEN LET remaining == IF maxDetails > enqueuedCount
                               THEN maxDetails - enqueuedCount ELSE 0
              IN  SubSeq(newUrls, 1, IF Len(newUrls) < remaining THEN Len(newUrls)
                                     ELSE remaining)
         ELSE newUrls

CrawlInit ==
    /\ seenUrls = {}
    /\ pagesProcessed = 0
    /\ listingsFound = 0
    /\ listingsEnqueued = 0
    /\ detailsScraped = 0
    /\ errors = 0
    /\ dataset = <<>>
    /\ requests = <<Request(R1, "START", 0, 0, 0)>>
    /\ fetched = 0
    /\ handled = 0
    /\ inflight = {}
    /\ phase = "crawl"
    /\ combined = <<>>
    /\ dedupLog = <<>>
    /\ detailEnqueues = <<>>
    /\ reclaimed = <<>>
    /\ pushedBy = <<>>
    /\ exports = 0

\* loadCrawlerConfig: the limits of the run
Config(maxConcurrency, maxDetails, maxPages) ==
    [maxRequests |-> MaxRequests, maxConcurrency |-> maxConcurrency,
     maxRetries |-> MaxRetries, maxDetails |-> maxDetails, maxPages |-> maxPages]

\* a run without detail limit in which no call of the automation layer rejects
Init ==
    /\ CrawlInit
    /\ config = Config(MaxConcurrency, 0, MaxPages)
    /\ faults = 0
    /\ probe = <<>>

\* the crawler takes the next request of the queue and calls its handler, which
\* runs up to its first await (page.waitForSelector)
StartRequest ==
    /\ phase = "crawl"
    /\ fetched < Len(requests)
    /\ Cardinality(inflight) < config.maxConcurrency
    /\ handled < config.maxRequests
    /\ fetched' = fetched + 1
    /\ inflight' = inflight \cup {[req |-> fetched + 1, pc |-> "wait",
                                   listings |-> <<>>, i |-> 1, newUrls |-> <<>>]}
    /\ UNCHANGED <<seenUrls, statsVars, dataset, requests, handled, phase, combined,
                   dedupLog, detailEnqueues, reclaimed, pushedBy, exports, envVars>>

\* handleSearchResults with a timed-out page counted as a processed page
SearchWaitTimeoutCounted(h) ==
    /\ isSearch(h) /\ h.pc = "wait"
    /\ errors' = errors + 1
    /\ pagesProcessed' = pagesProcessed + 1
    /\ inflight' = inflight \ {h}
    /\ handled' = handled + 1
    /\ requests' = ended(requests, h.req, "timeout")
    /\ UNCHANGED <<seenUrls, listingsFound, listingsEnqueued, detailsScraped,
                   dataset, fetched, phase, combined, dedupLog, detailEnqueues,
                   reclaimed, pushedBy, exports, envVars>>

\* handleSearchResults: waitForSelector times out: recordError and return
SearchWaitTimeout(h) ==
    /\ isSearch(h) /\ h.pc = "wait"
    /\ errors' = errors + 1
    /\ inflight' = inflight \ {h}
    /\ handled' = handled + 1
    /\ requests' = ended(requests, h.req, "timeout")
    /\ UNCHANGED <<seenUrls, pagesProcessed, listingsFound, listingsEnqueued, detailsScraped,
                   dataset, fetched, phase, combined, dedupLog, detailEnqueues,
                   reclaimed, pushedBy, exports, envVars>>

\* handleSearchResults: the wait passes and extractSearchListings returns the
\* summaries of the page's cards (a page whose evaluate rejects yields what a
\* page without cards yields)
SearchExtract(h, links) ==
    /\ isSearch(h) /\ h.pc = "wait"
    /\ inflight' = (inflight \ {h}) \cup
                   {[h EXCEPT !.pc = "push",
                              !.listings = extractSearchListings(links, FALSE).value]}
    /\ UNCHANGED <<seenUrls, statsVars, dataset, requests, fetched, handled, phase, combined,
                   dedupLog, detailEnqueues, reclaimed, pushedBy, exports, envVars>>

\* handleSearchResults: await Dataset.pushData({...listing, searchPage, label})
SearchPush(h) ==
    /\ isSearch(h) /\ h.pc = "push" /\ h.i <= Len(h.listings)
    /\ dataset' = Append(dataset, SummaryRecord(h.listings[h.i], pageNumOf(requests[h.req])))
    /\ pushedBy' = Append(pushedBy, [req |-> h.req, att |-> attOf(h)])
    /\ inflight' = (inflight \ {h}) \cup {[h EXCEPT !.i = h.i + 1]}
    /\ UNCHANGED <<seenUrls, statsVars, requests, fetched, handled, phase, combined,
                   dedupLog, detailEnqueues, reclaimed, exports, envVars>>

\* handleSearchResults with a page without listings counted as an error
SearchAdmitEmptyIsError(h) ==
    /\ isSearch(h) /\ h.pc = "push" /\ h.i > Len(h.listings)
    /\ LET listingUrls == listingUrlsOf(h.listings, 1)
           r == deduplicateUrls(listingUrls, seenUrls)
           toEnqueue == limitDetails(r.newUrls, config.maxDetails, listingsEnqueued)
       IN  /\ seenUrls' = r.seen
           /\ pagesProcessed' = pagesProcessed + 1
           /\ listingsFound' = listingsFound + Len(listingUrls)
           /\ errors' = IF h.listings = <<>> THEN errors + 1 ELSE errors
           /\ dedupLog' = Append(dedupLog, [req |-> h.req, att |-> attOf(h),
                                             cards |-> Len(h.listings), urls |-> listingUrls,
                                             before |-> seenUrls, newUrls |-> r.newUrls])
           /\ inflight' = (inflight \ {h}) \cup
                          {[h EXCEPT !.pc = IF Len(toEnqueue) > 0 THEN "enqueue" ELSE "next",
                                     !.newUrls = toEnqueue]}
    /\ UNCHANGED <<listingsEnqueued, detailsScraped, dataset, requests, fetched,
                   handled, phase, combined, detailEnqueues, reclaimed, pushedBy, exports,
                   envVars>>

\* handleSearchResults, lines 654-664: listingUrls, stats.deduplicateUrls,
\* stats.recordPage, up to the await of enqueueLinks or of page.evaluate
SearchAdmit(h) ==
    /\ isSearch(h) /\ h.pc = "push" /\ h.i > Len(h.listings)
    /\ LET listingUrls == listingUrlsOf(h.listings, 1)
           r == deduplicateUrls(listingUrls, seenUrls)
           toEnqueue == limitDetails(r.newUrls, config.maxDetails, listingsEnqueued)
       IN  /\ seenUrls' = r.seen
           /\ pagesProcessed' = pagesProcessed + 1
           /\ listingsFound' = listingsFound + Len(listingUrls)
           /\ dedupLog' = Append(dedupLog, [req |-> h.req, att |-> attOf(h),
                                             cards |-> Len(h.listings), urls |-> listingUrls,
                                             before |-> seenUrls, newUrls |-> r.newUrls])
           /\ inflight' = (inflight \ {h}) \cup
                          {[h EXCEPT !.pc = IF Len(toEnqueue) > 0 THEN "enqueue" ELSE "next",
                                     !.newUrls = toEnqueue]}
    /\ UNCHANGED <<listingsEnqueued, detailsScraped, errors, dataset, requests, fetched,
                   handled, phase, combined, detailEnqueues, reclaimed, pushedBy, exports,
                   envVars>>

\* handleSearchResults: await enqueueLinks({ urls: newUrls, label: 'DETAIL' })
SearchEnqueueDetails(h) ==
    /\ isSearch(h) /\ h.pc = "enqueue"
    /\ requests' = enqueueLinks(requests, h.newUrls, 1, "DETAIL", 0, h.req)
    /\ detailEnqueues' = Append(detailEnqueues, [req |-> h.req, att |-> attOf(h),
                                                 urls |-> h.newUrls])
    /\ inflight' = (inflight \ {h}) \cup {[h EXCEPT !.pc = "enqueued"]}
    /\ UNCHANGED <<seenUrls, statsVars, dataset, fetched, handled, phase, combined, dedupLog,
                   reclaimed, pushedBy, exports, envVars>>

\* handleSearchResults with recordEnqueued given the number of cards of the page
SearchRecordEnqueuedAllListings(h) ==
    /\ isSearch(h) /\ h.pc = "enqueued"
    /\ listingsEnqueued' = listingsEnqueued + Len(h.listings)
    /\ inflight' = (inflight \ {h}) \cup {[h EXCEPT !.pc = "next"]}
    /\ UNCHANGED <<seenUrls, pagesProcessed, listingsFound, detailsScraped, errors, dataset,
                   requests, fetched, handled, phase, combined, dedupLog, detailEnqueues,
                   reclaimed, pushedBy, exports, envVars>>

\* handleSearchResults without stats.recordEnqueued after enqueueLinks
SearchRecordEnqueuedNoCount(h) ==
    /\ isSearch(h) /\ h.pc = "enqueued"
    /\ inflight' = (inflight \ {h}) \cup {[h EXCEPT !.pc = "next"]}
    /\ UNCHANGED <<seenUrls, statsVars, dataset,
                   requests, fetched, handled, phase, combined, dedupLog, detailEnqueues,
                   reclaimed, pushedBy, exports, envVars>>

\* handleSearchResults: stats.recordEnqueued(newUrls.length) once enqueueLinks resolved
SearchRecordEnqueued(h) ==
    /\ isSearch(h) /\ h.pc = "enqueued"
    /\ listingsEnqueued' = listingsEnqueued + Len(h.newUrls)
    /\ inflight' = (inflight \ {h}) \cup {[h EXCEPT !.pc = "next"]}
    /\ UNCHANGED <<seenUrls, pagesProcessed, listingsFound, detailsScraped, errors, dataset,
                   requests, fetched, handled, phase, combined, dedupLog, detailEnqueues,
                   reclaimed, pushedBy, exports, envVars>>

\* handleSearchResults, lines 672-689: the total count is read, getNextPageUrl
\* answers next (Null: no next page); with a next page the handler awaits
\* enqueueLinks({ urls: [nextPageUrl], label: 'LIST', userData }), which adds
\* the request; without one it returns
SearchNextPage(h, next) ==
    /\ isSearch(h) /\ h.pc = "next"
    /\ IF Truthy(next)
       THEN /\ requests' = enqueueLinks(requests, <<next[2]>>, 1, "LIST",
                                        pageNumOf(requests[h.req]) + 1, h.req)
            /\ inflight' = (inflight \ {h}) \cup {[h EXCEPT !.pc = "return"]}
            /\ handled' = handled
       ELSE /\ requests' = ended(requests, h.req, "ok")
            /\ inflight' = inflight \ {h}
            /\ handled' = handled + 1
    /\ UNCHANGED <<seenUrls, statsVars, dataset, fetched, phase, combined, dedupLog,
                   detailEnqueues, reclaimed, pushedBy, exports, envVars>>

\* handleSearchResults: enqueueLinks of the LIST request resolved, the handler returns
SearchReturn(h) ==
    /\ isSearch(h) /\ h.pc = "return"
    /\ inflight' = inflight \ {h}
    /\ handled' = handled + 1
    /\ requests' = ended(requests, h.req, "ok")
    /\ UNCHANGED <<seenUrls, statsVars, dataset, fetched, phase, combined, dedupLog,
                   detailEnqueues, reclaimed, pushedBy, exports, envVars>>

\* DETAIL handler: waitForSelector times out: recordError and return
DetailWaitTimeout(h) ==
    /\ isDetail(h) /\ h.pc = "wait"
    /\ errors' = errors + 1
    /\ inflight' = inflight \ {h}
    /\ handled' = handled + 1
    /\ requests' = ended(requests, h.req, "timeout")
    /\ UNCHANGED <<seenUrls, pagesProcessed, listingsFound, listingsEnqueued, detailsScraped,
                   dataset, fetched, phase, combined, dedupLog, detailEnqueues,
                   reclaimed, pushedBy, exports, envVars>>

\* DETAIL handler: the wait passes, extractListingDetails returns data, the
\* record is completed and pushed, the handler returns
DetailScrape(h, data) ==
    /\ isDetail(h) /\ h.pc = "wait"
    /\ dataset' = Append(dataset, DetailRecord(data, requests[h.req].url))
    /\ pushedBy' = Append(pushedBy, [req |-> h.req, att |-> attOf(h)])
    /\ inflight' = inflight \ {h}
    /\ handled' = handled + 1
    /\ requests' = ended(requests, h.req, "ok")
    /\ UNCHANGED <<seenUrls, statsVars, fetched, phase, combined, dedupLog,
                   detailEnqueues, reclaimed, exports, envVars>>

\* the crawler has nothing left to run: no handler is running, and the queue
\* is drained or maxRequestsPerCrawl requests have been handled
isFinished ==
    /\ inflight = {}
    /\ (fetched = Len(requests) /\ reclaimed = <<>>) \/ handled >= config.maxRequests

\* main.ts:87-103: crawler.run returns (queue drained or maxRequestsPerCrawl
\* handled); the summary is printed and mergeAndExport builds the output
Finish ==
    /\ phase = "crawl"
    /\ isFinished
    /\ phase' = "done"
    /\ combined' = mergeAndExport(dataset)
    /\ exports' = exports + 1
    /\ UNCHANGED <<seenUrls, statsVars, dataset, requests, fetched, handled, inflight,
                   dedupLog, detailEnqueues, reclaimed, pushedBy, envVars>>

Next ==
    \/ StartRequest
    \/ \E h \in inflight : SearchWaitTimeout(h)
    \/ \E h \in inflight : \E links \in SeqsUpTo(CardLinks, MaxListings - cardsSoFar) :
          SearchExtract(h, links)
    \/ \E h \in inflight : SearchPush(h)
    \/ \E h \in inflight : SearchAdmit(h)
    \/ \E h \in inflight : SearchEnqueueDetails(h)
    \/ \E h \in inflight : SearchRecordEnqueued(h)
    \/ \E h \in inflight : \E next \in {Null} \cup {Str(u) : u \in SearchUrls} :
          SearchNextPage(h, next)
    \/ \E h \in inflight : SearchReturn(h)
    \/ \E h \in inflight : DetailWaitTimeout(h)
    \/ \E h \in inflight : \E data \in DetailPages : DetailScrape(h, data)
    \/ Finish

Spec == Init /\ [][Next]_vars

-----------------------------------------------------------------------------
(* Runs in which calls of the automation layer reject: retries, *)
(* failedRequestHandler, a failing crawler.run                  *)

\* the crawler with a failedRequestHandler that does not call stats.recordError
RejectedNotRecorded(h) ==
    /\ faults > 0
    /\ faults' = faults - 1
    /\ inflight' = inflight \ {h}
    /\ IF requests[h.req].retryCount < config.maxRetries
       THEN /\ requests' = [requests EXCEPT ![h.req].retryCount = @ + 1]
            /\ reclaimed' = Append(reclaimed, h.req)
            /\ UNCHANGED <<errors, handled>>
       ELSE /\ requests' = ended(requests, h.req, "failed")
            /\ handled' = handled + 1
            /\ UNCHANGED <<errors, reclaimed>>
    /\ UNCHANGED <<seenUrls, pagesProcessed, listingsFound, listingsEnqueued, detailsScraped,
                   dataset, fetched, phase, combined, dedupLog, detailEnqueues, pushedBy,
                   exports, probe, config>>

\* what the crawler does with a request whose navigation or handler rejected:
\* below maxRequestRetries the request goes back to the queue with retryCount
\* one more; otherwise it is marked handled and failedRequestHandler
\* (main.ts:81-84: stats.recordError()) runs
Rejected(h) ==
    /\ faults > 0
    /\ faults' = faults - 1
    /\ inflight' = inflight \ {h}
    /\ IF requests[h.req].retryCount < config.maxRetries
       THEN /\ requests' = [requests EXCEPT ![h.req].retryCount = @ + 1]
            /\ reclaimed' = Append(reclaimed, h.req)
            /\ UNCHANGED <<errors, handled>>
       ELSE /\ requests' = ended(requests, h.req, "failed")
            /\ errors' = errors + 1
            /\ handled' = handled + 1
            /\ UNCHANGED reclaimed
    /\ UNCHANGED <<seenUrls, pagesProcessed, listingsFound, listingsEnqueued, detailsScraped,
                   dataset, fetched, phase, combined, dedupLog, detailEnqueues, pushedBy,
                   exports, probe, config>>

\* the navigation to the page of a request fails before its handler has run
NavigationFails(h) ==
    /\ h.pc = "wait"
    /\ Rejected(h)

\* handleSearchResults throws: enqueueLinks of the DETAIL requests (line 665),
\* or the page.evaluate that reads the total count (line 673), rejects; neither
\* is inside a try
HandlerThrows(h) ==
    /\ isSearch(h) /\ h.pc \in {"enqueue", "next"}
    /\ Rejected(h)

\* the crawler takes a reclaimed request and calls its handler again
RetryRequest ==
    /\ phase = "crawl"
    /\ reclaimed # <<>>
    /\ Cardinality(inflight) < config.maxConcurrency
    /\ handled < config.maxRequests
    /\ reclaimed' = Tail(reclaimed)
    /\ inflight' = inflight \cup {[req |-> Head(reclaimed), pc |-> "wait",
                                   listings |-> <<>>, i |-> 1, newUrls |-> <<>>]}
    /\ UNCHANGED <<seenUrls, statsVars, dataset, requests, fetched, handled, phase, combined,
                   dedupLog, detailEnqueues, pushedBy, exports, envVars>>

\* main.ts with the summary and mergeAndExport after the try instead of in a
\* finally: a rejecting crawler.run skips them
RunFailsNoFinally ==
    /\ phase = "crawl"
    /\ inflight = {}
    /\ phase' = "failed"
    /\ UNCHANGED <<seenUrls, statsVars, dataset, requests, fetched, handled, inflight,
                   combined, dedupLog, detailEnqueues, reclaimed, pushedBy, exports, envVars>>

\* main.ts:87-103: crawler.run rejects; the finally block prints the summary
\* and runs mergeAndExport all the same
RunFails ==
    /\ phase = "crawl"
    /\ inflight = {}
    /\ phase' = "failed"
    /\ combined' = mergeAndExport(dataset)
    /\ exports' = exports + 1
    /\ UNCHANGED <<seenUrls, statsVars, dataset, requests, fetched, handled, inflight,
                   dedupLog, detailEnqueues, reclaimed, pushedBy, envVars>>

\* a run with one or two concurrent handlers in which calls may reject: up to
\* MaxFaults times in a sequential run, once fewer with two handlers
InitRetry ==
    /\ CrawlInit
    /\ config \in {Config(c, 0, MaxPages) : c \in {1, 2}}
    /\ faults = MaxFaults - (config.maxConcurrency - 1)
    /\ probe = <<>>

\* the site of these runs: cards that link to U1 or U2, detail pages with a title
RetryCardLinks == {Str(U1), Str(U2)}
RetryDetailPages == {d \in DetailPages : Truthy(d.title)}

NextRetry ==
    \/ StartRequest
    \/ \E h \in inflight : SearchWaitTimeout(h)
    \/ \E h \in inflight : \E links \in SeqsUpTo(RetryCardLinks, MaxListings - cardsSoFar) :
          SearchExtract(h, links)
    \/ \E h \in inflight : SearchPush(h)
    \/ \E h \in inflight : SearchAdmit(h)
    \/ \E h \in inflight : SearchEnqueueDetails(h)
    \/ \E h \in inflight : SearchRecordEnqueued(h)
    \/ \E h \in inflight : \E next \in {Null, Str(R2)} : SearchNextPage(h, next)
    \/ \E h \in inflight : SearchReturn(h)
    \/ \E h \in inflight : DetailWaitTimeout(h)
    \/ \E h \in inflight : \E data \in RetryDetailPages : DetailScrape(h, data)
    \/ Finish
    \/ \E h \in inflight : NavigationFails(h)
    \/ \E h \in inflight : HandlerThrows(h)
    \/ RetryRequest
    \/ RunFails

SpecRetry == InitRetry /\ [][NextRetry]_vars

-----------------------------------------------------------------------------
(* Runs under a detail limit *)

InitLimit ==
    /\ CrawlInit
    /\ config \in {Config(1, d, MaxPages) : d \in {-1, 0, MaxDetails}}
    /\ faults = 0
    /\ probe = <<>>

SpecLimit == InitLimit /\ [][Next]_vars

-----------------------------------------------------------------------------
(* deduplicateUrls on its own: two calls on two strings *)

ProbeChars == {"a", "A", "/", "?"}
ProbeStrings == SeqsUpTo(ProbeChars, MaxLen)

InitNorm ==
    /\ CrawlInit
    /\ config = Config(MaxConcurrency, 0, MaxPages)
    /\ faults = 0
    /\ probe \in {[u |-> u, v |-> v, stage |-> 0, seen |-> {}, first |-> <<>>, second |-> <<>>] :
                    u \in ProbeStrings, v \in ProbeStrings}

\* stats.deduplicateUrls([u, v]) on a fresh CrawlerStats
DedupFirst ==
    /\ probe.stage = 0
    /\ LET r == deduplicateUrls(<<probe.u, probe.v>>, probe.seen)
       IN  probe' = [probe EXCEPT !.stage = 1, !.seen = r.seen, !.first = r.newUrls]
    /\ UNCHANGED crawlVars

\* a later stats.deduplicateUrls([v, u]) on the same CrawlerStats
DedupSecond ==
    /\ probe.stage = 1
    /\ LET r == deduplicateUrls(<<probe.v, probe.u>>, probe.seen)
       IN  probe' = [probe EXCEPT !.stage = 2, !.seen = r.seen, !.second = r.newUrls]
    /\ UNCHANGED crawlVars

NextNorm == DedupFirst \/ DedupSecond

SpecNorm == InitNorm /\ [][NextNorm]_vars

-----------------------------------------------------------------------------
(* extractListingId on its own: detail URLs built from a list of parameters *)

IdKeys == {<<"i", "d">>, <<"I", "D">>, <<"I", "d">>}
OtherKeys == {<<"x">>, <<"x", "i", "d">>, <<"i", "d", "x">>}
NumericValues == {<<"1">>, <<"2", "1">>}
ProbeParams == {[key |-> k, val |-> v] : k \in IdKeys \cup OtherKeys,
                                         v \in NumericValues \cup {<<"x">>}}

\* details.asp?key=val&key=val...
RECURSIVE joinParams(_, _)
joinParams(ps, k) ==
    IF k > Len(ps) THEN <<>>
    ELSE (IF k = 1 THEN <<"?">> ELSE <<"&">>) \o ps[k].key \o <<"=">> \o ps[k].val
         \o joinParams(ps, k + 1)
buildUrl(ps) == <<"details.asp">> \o joinParams(ps, 1)

InitId ==
    /\ CrawlInit
    /\ config = Config(MaxConcurrency, 0, MaxPages)
    /\ faults = 0
    /\ probe \in {[params |-> ps, url |-> buildUrl(ps), id |-> Undefined, done |-> FALSE] :
                    ps \in SeqsUpTo(ProbeParams, MaxParams)}

\* data.listingId = extractListingId(request.url)
ApplyExtractListingId ==
    /\ ~probe.done
    /\ probe' = [probe EXCEPT !.id = extractListingId(probe.url), !.done = TRUE]
    /\ UNCHANGED crawlVars

NextId == ApplyExtractListingId

SpecId == InitId /\ [][NextId]_vars

-----------------------------------------------------------------------------
(* Properties *)

\* the fingerprints of a list of URLs
fingerprints(urls) == {normalized(urls[k]) : k \in 1..Len(urls)}

\* the concatenation of the newUrls of the first n deduplicateUrls calls
RECURSIVE returnedUpTo(_)
returnedUpTo(n) == IF n = 0 THEN <<>> ELSE returnedUpTo(n - 1) \o dedupLog[n].newUrls

\* the positions of a call's input whose fingerprint is neither in seenUrls
\* when the call starts nor carried by an earlier position of the same input
freshPositions(e) ==
    {k \in 1..Len(e.urls) :
        /\ normalized(e.urls[k]) \notin e.before
        /\ \A j \in 1..(k - 1) : normalized(e.urls[j]) # normalized(e.urls[k])}

\* C1: over all deduplicateUrls calls of a run, a URL is returned exactly when
\* its fingerprint was not in seenUrls at the moment it was examined, its
\* fingerprint is in seenUrls afterwards, seenUrls holds nothing else, and no
\* fingerprint is returned twice, by two calls or within one call.
C1_AdmitOnce ==
    /\ \A n \in 1..Len(dedupLog) :
          LET e == dedupLog[n]
              fresh == SortedSeq(freshPositions(e))
          IN  /\ e.newUrls = [p \in 1..Len(fresh) |-> e.urls[fresh[p]]]
              /\ fingerprints(e.urls) \subseteq seenUrls
    /\ seenUrls = fingerprints(returnedUpTo(Len(dedupLog)))
    /\ LET all == returnedUpTo(Len(dedupLog))
       IN  \A p, q \in 1..Len(all) : p # q => normalized(all[p]) # normalized(all[q])

\* C1 witness: a second call whose input overlaps the first call's gets nothing back
C1_Witness ==
    /\ Len(dedupLog) = 2
    /\ dedupLog[1].newUrls # <<>>
    /\ dedupLog[2].urls # <<>>
    /\ fingerprints(dedupLog[2].urls) \subseteq fingerprints(dedupLog[1].urls)
    /\ dedupLog[2].newUrls = <<>>

\* two letters that differ at most in case
CasePairs == {{"a", "A"}}
sameLetter(a, b) == a = b \/ {a, b} \in CasePairs
\* u and v are, up to letter case, the same string followed by trailing slashes
differOnlyByCaseOrSlashes(u, v) ==
    \E n \in 0..Len(u) :
        /\ n <= Len(v)
        /\ \A k \in (n + 1)..Len(u) : u[k] = "/"
        /\ \A k \in (n + 1)..Len(v) : v[k] = "/"
        /\ \A k \in 1..n : sameLetter(u[k], v[k])

\* C2: two URLs that differ only in letter case or in the number of trailing
\* slashes have the same fingerprint; deduplicateUrls([u, v]) returns the first
\* one, u, as it was spelled, and a later call with v and u returns nothing.
C2_SameFingerprint ==
    (probe.stage >= 1 /\ differOnlyByCaseOrSlashes(probe.u, probe.v)) =>
        /\ Cardinality(probe.seen) = 1
        /\ probe.first = <<probe.u>>
        /\ probe.stage = 2 => probe.second = <<>>

\* C2 witness: u and v differ in case and in trailing slashes, both calls are done
C2_Witness ==
    /\ probe.stage = 2
    /\ probe.u = <<"a", "/", "/">>
    /\ probe.v = <<"A">>
    /\ probe.first = <<probe.u>>
    /\ probe.second = <<>>

\* C3: two search-results handlers never receive the same fingerprint from
\* deduplicateUrls, and never pass the same detail URL to enqueueLinks, also
\* when they are in flight together.
C3_NoDoubleAdmission ==
    /\ \A a, b \in 1..Len(dedupLog) :
          dedupLog[a].req # dedupLog[b].req =>
              fingerprints(dedupLog[a].newUrls) \cap fingerprints(dedupLog[b].newUrls) = {}
    /\ \A a, b \in 1..Len(detailEnqueues) :
          detailEnqueues[a].req # detailEnqueues[b].req =>
              fingerprints(detailEnqueues[a].urls) \cap fingerprints(detailEnqueues[b].urls) = {}

\* C3 witness: two search-results handlers are in flight together, their pages
\* list a common fingerprint, and both have called deduplicateUrls
C3_Witness ==
    /\ MaxConcurrency > 1
    /\ \E h1, h2 \in inflight :
          /\ h1 # h2 /\ isSearch(h1) /\ isSearch(h2)
          /\ \E a, b \in 1..Len(dedupLog) :
                /\ dedupLog[a].req = h1.req /\ dedupLog[b].req = h2.req
                /\ fingerprints(dedupLog[a].urls) \cap fingerprints(dedupLog[b].urls) # {}

\* the positions of the parameters of ps whose key is id in some letter case
idPositions(ps) == {p \in 1..Len(ps) : ps[p].key \in IdKeys}

\* C4: for a detail URL whose id parameter holds digits, extractListingId
\* returns those digits, wherever the parameter stands in the query string and
\* however its key is cased; for a URL without id parameter it returns ''.
C4_ListingId ==
    probe.done =>
        LET ids == idPositions(probe.params)
        IN  /\ ids = {} => probe.id = Str(<<>>)
            /\ ids # {} =>
                  LET f == CHOOSE p \in ids : \A q \in ids : p <= q
                  IN  probe.params[f].val \in NumericValues =>
                          probe.id = Str(probe.params[f].val)

\* C4 witness: the id parameter is the second one, its key in upper case
C4_Witness ==
    /\ probe.done
    /\ probe.params = <<[key |-> <<"x", "i", "d">>, val |-> <<"1">>],
                        [key |-> <<"I", "D">>, val |-> <<"2", "1">>]>>
    /\ probe.id = Str(<<"2", "1">>)

-----------------------------------------------------------------------------
(* Properties of mergeAndExport, on the dataset a crawl leaves *)

listingIdOf(k) == Get(dataset[k], "listingId")
summaryIdx == {k \in 1..Len(dataset) : Get(dataset[k], "label") = Str(<<"search-listing">>)}
detailIdx == {k \in 1..Len(dataset) : "url" \in DOMAIN dataset[k]}
outIdx == 1..Len(combined)
\* an output record built from a summary and a detail record
joined(p) == combined[p].s # 0 /\ combined[p].d # 0
\* an identity that can serve as join key: a non-empty string
nonEmptyId(v) == v[1] = "str" /\ Len(v[2]) > 0

\* C5: no output record combines a summary and a detail record unless both
\* carry the same non-empty listingId; a summary whose listingId is null or
\* empty and a detail record whose listingId is empty are never joined.
C5_NoEmptyJoin ==
    phase = "done" =>
        \A p \in outIdx :
            /\ ("label" \in DOMAIN combined[p].rec /\ "url" \in DOMAIN combined[p].rec)
                  <=> joined(p)
            /\ joined(p) =>
                  /\ nonEmptyId(listingIdOf(combined[p].s))
                  /\ listingIdOf(combined[p].s) = listingIdOf(combined[p].d)
            /\ (combined[p].s # 0 /\ ~nonEmptyId(listingIdOf(combined[p].s))) =>
                  combined[p].d = 0
            /\ (combined[p].d # 0 /\ ~nonEmptyId(listingIdOf(combined[p].d))) =>
                  combined[p].s = 0

\* C5 witness: the dataset holds a summary without identity and a detail
\* record with the empty identity, and the merge has run
C5_Witness ==
    /\ phase = "done"
    /\ \E s \in summaryIdx : listingIdOf(s) = Null
    /\ \E d \in detailIdx : listingIdOf(d) = Str(<<>>)

\* the record { ...s, ...d, searchPage: s.searchPage, thumbnail: s.thumbnail }
\* stated key by key
isOverlay(rec, s, d) ==
    /\ DOMAIN rec = (DOMAIN s) \cup (DOMAIN d)
    /\ \A k \in DOMAIN d : rec[k] = d[k]
    /\ \A k \in (DOMAIN s) \ (DOMAIN d) : rec[k] = s[k]
    /\ rec["searchPage"] = s["searchPage"]
    /\ rec["thumbnail"] = s["thumbnail"]

\* C6: for every non-empty listingId carried by a summary and by a detail
\* record, exactly one combined record is emitted; in a combined record every
\* key of its detail record has the detail's value, every other key of its
\* summary has the summary's value, searchPage and thumbnail are the summary's.
C6_DetailOverlay ==
    phase = "done" =>
        /\ \A p \in outIdx :
              joined(p) => isOverlay(combined[p].rec, dataset[combined[p].s],
                                     dataset[combined[p].d])
        /\ \A s \in summaryIdx : \A d \in detailIdx :
              (nonEmptyId(listingIdOf(s)) /\ listingIdOf(s) = listingIdOf(d)) =>
                  /\ Cardinality({p \in outIdx : joined(p)
                                     /\ listingIdOf(combined[p].s) = listingIdOf(s)}) = 1
                  /\ (/\ \A s2 \in summaryIdx : listingIdOf(s2) = listingIdOf(s) => s2 = s
                      /\ \A d2 \in detailIdx : listingIdOf(d2) = listingIdOf(d) => d2 = d)
                        => \E p \in outIdx : /\ combined[p].s = s /\ combined[p].d = d
                                             /\ isOverlay(combined[p].rec, dataset[s], dataset[d])

\* C6 witness: a combined record whose title and year are the detail's and
\* differ from the summary's, and whose fuel is the summary's
C6_Witness ==
    /\ phase = "done"
    /\ \E p \in outIdx :
          /\ joined(p)
          /\ combined[p].rec["title"] = Str(<<"BMW 320d">>)
          /\ dataset[combined[p].s]["title"] = Str(<<"Audi A4">>)
          /\ combined[p].rec["year"] = Str(<<"2020">>)
          /\ combined[p].rec["fuel"] = Str(<<"diesel">>)
          /\ combined[p].rec["thumbnail"] = Str(<<"thumb.jpg">>)

\* C7 (as claimed): every detail record of the dataset appears in the merged
\* output, overlaid on a summary or standalone.
C7_NoDetailDropped ==
    phase = "done" => \A d \in detailIdx : \E p \in outIdx : combined[p].d = d

\* C8 (as claimed): no two records of the merged output carry the same
\* non-empty listingId.
C8_UniqueIdentity ==
    phase = "done" =>
        \A p, q \in outIdx :
            (p # q /\ nonEmptyId(Get(combined[p].rec, "listingId"))) =>
                Get(combined[p].rec, "listingId") # Get(combined[q].rec, "listingId")

\* C9: an output record built from a summary carries detailScraped = false
\* exactly when it was not joined with a detail record; a standalone detail
\* record never carries the flag; a summary whose listingId no detail record
\* carries is emitted with the flag.
C9_DetailScrapedFlag ==
    phase = "done" =>
        /\ \A p \in outIdx :
              /\ combined[p].s # 0 =>
                    (Get(combined[p].rec, "detailScraped") = Bool(FALSE) <=> combined[p].d = 0)
              /\ combined[p].s = 0 => "detailScraped" \notin DOMAIN combined[p].rec
              /\ joined(p) => "detailScraped" \notin DOMAIN combined[p].rec
        /\ \A s \in summaryIdx :
              (\A d \in detailIdx : ~(nonEmptyId(listingIdOf(s)) /\ listingIdOf(s) = listingIdOf(d)))
                  => \E p \in outIdx : /\ combined[p].s = s
                                       /\ Get(combined[p].rec, "detailScraped") = Bool(FALSE)

\* C9 witness: the output holds a combined record and the record of a summary
\* whose listing was never scraped, flagged
C9_Witness ==
    /\ phase = "done"
    /\ \E p, q \in outIdx :
          /\ joined(p)
          /\ combined[q].s # 0 /\ combined[q].d = 0
          /\ nonEmptyId(listingIdOf(combined[q].s))
          /\ \A d \in detailIdx : listingIdOf(d) # listingIdOf(combined[q].s)
          /\ combined[q].rec["detailScraped"] = Bool(FALSE)

\* C10 (as claimed): the output is one record per summary, in the order the
\* summaries were stored, followed by the detail records that were not joined,
\* in the order they were stored.
C10_OutputOrder ==
    phase = "done" =>
        LET ss == SortedSeq(summaryIdx)
            orphans == SortedSeq({d \in detailIdx : ~\E p \in outIdx : joined(p) /\ combined[p].d = d})
        IN  /\ Len(combined) = Len(ss) + Len(orphans)
            /\ \A p \in 1..Len(ss) : combined[p].s = ss[p]
            /\ \A p \in 1..Len(orphans) :
                  /\ combined[Len(ss) + p].s = 0
                  /\ combined[Len(ss) + p].d = orphans[p]

-----------------------------------------------------------------------------
(* The effects of one search-results page *)

\* the place of a search request in the chain of pages that starts at the
\* start URL: 1 for the start request, one more than the page that scheduled it
RECURSIVE pageIndex(_)
pageIndex(r) == IF requests[r].by = 0 THEN 1 ELSE pageIndex(requests[r].by) + 1

\* the requests with label that attempt att of the handler of request r added
scheduledBy(r, att, label) ==
    LET byIt(q) == q.label = label /\ q.by = r /\ q.byAtt = att
    IN  SelectSeq(requests, byIt)

urlsOf(reqs) == [k \in 1..Len(reqs) |-> reqs[k].url]

isSummary(rec) == Get(rec, "label") = Str(<<"search-listing">>)

-----------------------------------------------------------------------------
(* Page-wait timeouts *)

\* C12: the step in which the handler of a search or detail page gives up on
\* its wait (the request's outcome becomes "timeout") adds exactly one to the
\* error counter and changes nothing else of the crawl: the dataset, seenUrls,
\* pagesProcessed, listingsFound, listingsEnqueued and detailsScraped keep
\* their values, no request is added to the queue and none is given back to
\* it for a retry.
C12_TimeoutOnlyCountsError ==
    [][\A r \in 1..Len(requests) :
          (requests[r].outcome # "timeout" /\ requests'[r].outcome = "timeout") =>
              /\ errors' = errors + 1
              /\ UNCHANGED <<dataset, seenUrls, pagesProcessed, listingsFound,
                             listingsEnqueued, detailsScraped, reclaimed>>
              /\ requests' = [requests EXCEPT ![r].outcome = "timeout"]]_vars

\* C12 witness: a search page and a detail page have both timed out in a run
\* that has recorded summaries and admitted URLs
C12_Witness ==
    /\ \E r \in 1..Len(requests) :
          requests[r].label = "LIST" /\ requests[r].outcome = "timeout"
    /\ \E r \in 1..Len(requests) :
          requests[r].label = "DETAIL" /\ requests[r].outcome = "timeout"
    /\ dataset # <<>> /\ seenUrls # {}

-----------------------------------------------------------------------------
(* Termination and the end of the run *)

\* steps a handler has at most left, by the await it is suspended at
stepsLeft(h) ==
    CASE h.pc = "wait" -> MaxListings + 6
      [] h.pc = "push" -> (Len(h.listings) - h.i + 1) + 5
      [] h.pc = "enqueue" -> 4
      [] h.pc = "enqueued" -> 3
      [] h.pc = "next" -> 2
      [] h.pc = "return" -> 1

RECURSIVE sumOver(_, _)
sumOver(f(_), S) ==
    IF S = {} THEN 0
    ELSE LET x == CHOOSE y \in S : TRUE IN f(x) + sumOver(f, S \ {x})

\* handler calls begun so far: first attempts and retries
attemptsStarted ==
    LET retryCountOf(r) == requests[r].retryCount
    IN  fetched + sumOver(retryCountOf, 1..Len(requests)) - Len(reclaimed)

\* handler calls a run can make at most: every URL of the site once, and
\* maxRetries more times each
attemptsAtMost == Cardinality(SearchUrls \cup DetailUrls) * (config.maxRetries + 1)

\* a bound on the number of steps left before the run has ended
stepsToEnd ==
    IF phase # "crawl" THEN 0
    ELSE 1 + sumOver(stepsLeft, inflight)
           + (MaxListings + 7) * (attemptsAtMost - attemptsStarted)

\* some step of the run is enabled: a suspended handler can resume without
\* any further input, or the crawler can start or retry a request, or the run
\* can end
canStep ==
    IF inflight = {}
    THEN isFinished \/ ENABLED (StartRequest \/ RetryRequest)
    ELSE ENABLED (\E h \in inflight :
                     \/ SearchWaitTimeout(h) \/ SearchPush(h) \/ SearchAdmit(h)
                     \/ SearchEnqueueDetails(h) \/ SearchRecordEnqueued(h)
                     \/ SearchNextPage(h, Null) \/ SearchReturn(h)
                     \/ DetailWaitTimeout(h))

-----------------------------------------------------------------------------
(* The limits of a run *)

detailRequests == SelectSeq(requests, LAMBDA q : q.label = "DETAIL")

\* C14: with maxPages > 0 at most maxPages search-results pages are processed
\* in a run, and a page that is the maxPages-th or later of the chain schedules
\* no LIST request.
C14_PageLimit ==
    config.maxPages > 0 =>
        /\ pagesProcessed <= config.maxPages
        /\ \A q \in 1..Len(requests) :
              requests[q].label = "LIST" => pageIndex(requests[q].by) < config.maxPages

C16_DetailsScrapedCount ==
    phase # "crawl" => detailsScraped = Len(detailPages(dataset))

-----------------------------------------------------------------------------
(* Failed pages *)

\* the requests whose page failed: the handler gave up on its wait, or the
\* crawler gave up on the request and called failedRequestHandler
failedPages == {r \in 1..Len(requests) : requests[r].outcome \in {"timeout", "failed"}}

\* C17: at every moment of a run, and so at its end, errors is the number of
\* failed pages, each counted once; a failed page does not stop the crawl: the
\* handled requests are those that have an outcome, and a run that ends below
\* maxRequests has given an outcome to every request of the queue.
C17_ErrorsCountFailedPages ==
    /\ errors = Cardinality(failedPages)
    /\ handled = Cardinality({r \in 1..Len(requests) : requests[r].outcome # "none"})
    /\ (phase = "done" /\ handled < config.maxRequests) =>
          \A r \in 1..Len(requests) : requests[r].outcome # "none"

\* C17 witness: a run has ended in which the crawler gave up on one request
\* after its retries, a later page timed out in its handler, and an earlier
\* request was handled without failure
C17_Witness ==
    /\ phase = "done"
    /\ \E r, q \in 1..Len(requests) :
          /\ r < q
          /\ requests[r].outcome = "failed" /\ requests[r].retryCount = config.maxRetries
          /\ requests[q].outcome = "timeout"
    /\ \E r \in 1..Len(requests) : requests[r].outcome = "ok"

-----------------------------------------------------------------------------
(* The extractors on their own *)

\* the parts of a detail page, one per helper of extractListingDetails
Extractors == {"title", "price", "description", "specs", "equipment", "images", "seller"}

\* what a detail page holds: a full page, and a page where everything that
\* can be absent is absent
DetailDoms ==
    {[title |-> Str(<<"BMW 320d">>),
      price |-> [current |-> Str(<<"15.470 €">>), original |-> Null],
      description |-> Str(<<"servisna knjiga">>),
      specs |-> [year |-> Str(<<"2020">>), mileage |-> Str(<<"99000">>),
                 fuelType |-> Str(<<"diesel">>)],
      equipment |-> <<Str(<<"ABS">>)>>,
      images |-> <<Str(<<"images.avto.net/big/1.jpg">>)>>,
      seller |-> [name |-> Str(<<"Avto d.o.o.">>), type |-> Str(<<"dealer">>),
                  location |-> Null, phone |-> Str(<<"041 000 000">>)]],
     [title |-> Null,
      price |-> [current |-> Null, original |-> Null],
      description |-> Null,
      specs |-> <<>>,
      equipment |-> <<>>,
      images |-> <<>>,
      seller |-> [name |-> Null, type |-> Str(<<"private">>),
                  location |-> Null, phone |-> Null]]}

\* safeText(page, ['h3']): the text of the first match, null when there is
\* none or when page.$ / textContent rejects (caught per selector)
safeText(dom, failing) ==
    [threw |-> FALSE, value |-> IF "title" \in failing THEN Null ELSE dom.title]

\* extractPrice: { current, original }, both null when its page calls reject
extractPrice(dom, failing) ==
    [threw |-> FALSE,
     value |-> IF "price" \in failing THEN [current |-> Null, original |-> Null]
               ELSE dom.price]

\* extractDescription: the text, null when page.evaluate rejects
extractDescription(dom, failing) ==
    [threw |-> FALSE, value |-> IF "description" \in failing THEN Null ELSE dom.description]

\* extractSpecTable: the labelled fields found, none when its page calls reject
extractSpecTable(dom, failing) ==
    [threw |-> FALSE, value |-> IF "specs" \in failing THEN <<>> ELSE dom.specs]

\* extractEquipment: the items, [] when page.evaluate rejects
extractEquipment(dom, failing) ==
    [threw |-> FALSE, value |-> IF "equipment" \in failing THEN <<>> ELSE dom.equipment]

\* extractImages: the URLs, [] when page.$$eval rejects
extractImages(dom, failing) ==
    [threw |-> FALSE, value |-> IF "images" \in failing THEN <<>> ELSE dom.images]

\* extractSellerInfo: { name, type, location, phone }, all null when
\* page.evaluate rejects
extractSellerInfo(dom, failing) ==
    [threw |-> FALSE,
     value |-> IF "seller" \in failing
               THEN [name |-> Null, type |-> Null, location |-> Null, phone |-> Null]
               ELSE dom.seller]

\* extractListingDetails: the helpers are awaited one after the other with no
\* try around them, so the call rejects as soon as one of them does
extractListingDetails(dom, failing) ==
    LET title == safeText(dom, failing)
        price == extractPrice(dom, failing)
        description == extractDescription(dom, failing)
        specs == extractSpecTable(dom, failing)
        equipment == extractEquipment(dom, failing)
        images == extractImages(dom, failing)
        seller == extractSellerInfo(dom, failing)
    IN  IF \/ title.threw \/ price.threw \/ description.threw \/ specs.threw
           \/ equipment.threw \/ images.threw \/ seller.threw
        THEN [threw |-> TRUE, value |-> Null]
        ELSE [threw |-> FALSE,
              value |-> Spread(Spread([title |-> title.value, price |-> price.value,
                                       description |-> description.value], specs.value),
                               [equipment |-> equipment.value, images |-> images.value,
                                seller |-> seller.value])]

InitExtract ==
    /\ CrawlInit
    /\ config = Config(MaxConcurrency, 0, MaxPages)
    /\ faults = 0
    /\ probe \in {[kind |-> "detail", dom |-> dom, failing |-> failing, done |-> FALSE,
                   result |-> Null] :
                     dom \in DetailDoms, failing \in SUBSET Extractors}
              \cup
                 {[kind |-> "search", links |-> links, rejected |-> rejected, done |-> FALSE,
                   result |-> Null] :
                     links \in SeqsUpTo(CardLinks, MaxListings), rejected \in BOOLEAN}

\* const data = await extractListingDetails(page, log)
ApplyExtractListingDetails ==
    /\ probe.kind = "detail" /\ ~probe.done
    /\ probe' = [probe EXCEPT !.done = TRUE,
                              !.result = extractListingDetails(probe.dom, probe.failing)]
    /\ UNCHANGED crawlVars

\* const listings = await extractSearchListings(page, log)
ApplyExtractSearchListings ==
    /\ probe.kind = "search" /\ ~probe.done
    /\ probe' = [probe EXCEPT !.done = TRUE,
                              !.result = extractSearchListings(probe.links, probe.rejected)]
    /\ UNCHANGED crawlVars

NextExtract == ApplyExtractListingDetails \/ ApplyExtractSearchListings

SpecExtract == InitExtract /\ [][NextExtract]_vars

\* the fields of a detail record that extractor e fills
fieldsOf(e) ==
    IF e = "specs" THEN {"year", "mileage", "fuelType"} ELSE {e}

\* the value of a field of extractor e after a failure of e
emptyOf(e) ==
    CASE e \in {"title", "description"} -> Null
      [] e = "price" -> [current |-> Null, original |-> Null]
      [] e \in {"equipment", "images"} -> <<>>
      [] e = "seller" -> [name |-> Null, type |-> Null, location |-> Null, phone |-> Null]

-----------------------------------------------------------------------------
(* Admitted URLs and the queue *)

\* C20: once a run in which no page failed for good has ended (a handler that
\* rejected was retried and its retry went through), every fingerprint in
\* seenUrls is the fingerprint of a DETAIL request of the queue: no admitted
\* URL was left unscheduled.
C20_AdmittedIsScheduled ==
    (phase = "done" /\ failedPages = {}) =>
        \A fp \in seenUrls :
            \E q \in 1..Len(requests) :
                requests[q].label = "DETAIL" /\ normalized(requests[q].url) = fp

-----------------------------------------------------------------------------
(* Retried search pages *)

\* the search requests whose handler has reached the admit step at least once
pagesHandled == {dedupLog[n].req : n \in 1..Len(dedupLog)}

\* C21: pagesProcessed never exceeds the number of distinct search pages
\* handled, and the summaries of one search page in the dataset were all
\* pushed by the same run of its handler (a retried page pushes none again).
C21_PageCountedOnce ==
    /\ pagesProcessed <= Cardinality(pagesHandled)
    /\ \A j, k \in 1..Len(pushedBy) :
          pushedBy[j].req = pushedBy[k].req => pushedBy[j].att = pushedBy[k].att

-----------------------------------------------------------------------------
(* Counter relations *)

\* the number of URLs handed to enqueueLinks with label DETAIL so far
urlsHandedToEnqueue ==
    sumOver(LAMBDA n : Len(detailEnqueues[n].urls), 1..Len(detailEnqueues))

\* no search handler is between its first and its last statement
noSearchInFlight == \A h \in inflight : ~isSearch(h)

-----------------------------------------------------------------------------
(* One detail visit per listing *)

\* C23 (as claimed): no two DETAIL requests of the queue carry the same
\* non-empty listing identity.
C23_OneVisitPerListing ==
    \A p, q \in 1..Len(requests) :
        (/\ requests[p].label = "DETAIL" /\ requests[q].label = "DETAIL"
         /\ nonEmptyId(extractListingId(requests[p].url))
         /\ extractListingId(requests[p].url) = extractListingId(requests[q].url))
            => p = q

-----------------------------------------------------------------------------
(* Pagination *)

\* the requests for search-results pages: the start request and the LIST requests
searchRequests == {r \in 1..Len(requests) : requests[r].label # "DETAIL"}

\* C24 (as claimed): no search-results page is processed more than once, also
\* when a next-page link points back to a processed page: no two search
\* requests have the same URL, every search request passes the admit step of
\* its handler at most once, and the number of LIST requests and of processed
\* pages is bounded by the pages of the site, not by maxRequests.
C24_PageProcessedOnce ==
    /\ \A p, q \in searchRequests : requests[p].url = requests[q].url => p = q
    /\ \A m, n \in 1..Len(dedupLog) : dedupLog[m].req = dedupLog[n].req => m = n
    /\ Cardinality(searchRequests) <= Cardinality(SearchUrls)
    /\ pagesProcessed <= Cardinality(SearchUrls)

-----------------------------------------------------------------------------
(* Consumption of detail records by the merge *)

\* C25: a detail record is built into at most one output record (overlaid on
\* one summary, or standalone, never both and never twice); a summary that
\* follows a joined summary with the same listingId is emitted without detail
\* data and flagged detailScraped = false.
C25_DetailConsumedOnce ==
    phase = "done" =>
        /\ \A p, q \in outIdx :
              (combined[p].d # 0 /\ combined[p].d = combined[q].d) => p = q
        /\ \A p, q \in outIdx :
              (/\ p < q /\ joined(p) /\ combined[q].s # 0
               /\ listingIdOf(combined[q].s) = listingIdOf(combined[p].s))
                  => /\ combined[q].d = 0
                     /\ Get(combined[q].rec, "detailScraped") = Bool(FALSE)
                     /\ "url" \notin DOMAIN combined[q].rec

\* two summaries with the same listingId and a detail record for it: the
\* first summary is joined, the second is emitted flagged
C25_Witness ==
    /\ phase = "done"
    /\ \E p, q \in outIdx :
          /\ p < q /\ joined(p) /\ combined[q].s # 0
          /\ listingIdOf(combined[q].s) = listingIdOf(combined[p].s)
          /\ combined[q].rec["detailScraped"] = Bool(FALSE)
          /\ Len(combined) = 2

-----------------------------------------------------------------------------
(* The page helpers on their own *)

\* selectors of the lists drawn for the helpers on their own
MaxSelectors == 3

\* the origin and directory of the site; a request URL of the crawl is the
\* rest of page.url()
SiteOrigin == "https://www.avto.net"
SiteDir == "/Ads/"
pageUrlOf(req) == <<SiteOrigin, SiteDir>> \o req.url

\* href attributes of a pagination link: relative to the page, a path from the
\* site root, a full URL, a query on the page, and a string that is no URL
HrefRelative == <<"results.asp", "?", "stran", "=", "2">>
HrefRooted == <<"/Ads/", "results.asp", "?", "stran", "=", "2">>
HrefFull == <<"https://www.avto.net", "/Ads/", "results.asp", "?", "stran", "=", "2">>
HrefQuery == <<"?", "stran", "=", "3">>
HrefInvalid == <<"http://">>
Hrefs == {HrefRelative, HrefRooted, HrefFull, HrefQuery, HrefInvalid}

\* the part of a URL before its query
RECURSIVE beforeQuery(_)
beforeQuery(u) ==
    IF u = <<>> \/ u[1] = "?" THEN <<>> ELSE <<u[1]>> \o beforeQuery(Tail(u))

\* new URL(href, base).toString() for a base with origin, directory and file:
\* a scheme without host throws (TypeError: Invalid URL); a full URL stands; a
\* path from the root takes the origin of base; a query replaces the query of
\* base; anything else replaces the file of base
newURL(href, base) ==
    CASE href[1] = "http://" -> [threw |-> TRUE, value |-> <<>>]
      [] href[1] = SiteOrigin -> [threw |-> FALSE, value |-> href]
      [] href[1] = SiteDir -> [threw |-> FALSE, value |-> <<base[1]>> \o href]
      [] href[1] = "?" -> [threw |-> FALSE, value |-> beforeQuery(base) \o href]
      [] OTHER -> [threw |-> FALSE, value |-> <<base[1], base[2]>> \o href]

\* what one selector of a list gives: page.$ finds no element, page.$ or the
\* read of the element rejects, or the element is found and the read gives v
NoMatch == [kind |-> "none"]
Raises == [kind |-> "raises"]
Found(v) == [kind |-> "found", v |-> v]

\* getNextPageUrl with the selector calls outside a try
RECURSIVE getNextPageUrlUnguarded(_, _, _)
getNextPageUrlUnguarded(sels, k, base) ==
    IF k > Len(sels) THEN [threw |-> FALSE, value |-> Null]
    ELSE LET o == sels[k]
         IN  IF o.kind = "raises" THEN [threw |-> TRUE, value |-> Null]
             ELSE IF o.kind = "found" /\ Truthy(o.v)
             THEN LET u == newURL(o.v[2], base)
                  IN  IF u.threw THEN [threw |-> TRUE, value |-> Null]
                      ELSE [threw |-> FALSE, value |-> Str(u.value)]
             ELSE getNextPageUrlUnguarded(sels, k + 1, base)

\* getNextPageUrl: the selectors in order; for each, inside one try, page.$,
\* getAttribute('href'), if (href) new URL(href, page.url()).toString() is
\* returned; a rejection or a throw inside the try moves on to the next
\* selector; null after the last
RECURSIVE getNextPageUrl(_, _, _)
getNextPageUrl(sels, k, base) ==
    IF k > Len(sels) THEN [threw |-> FALSE, value |-> Null]
    ELSE LET o == sels[k]
         IN  IF o.kind = "found" /\ Truthy(o.v)
             THEN LET u == newURL(o.v[2], base)
                  IN  IF u.threw THEN getNextPageUrl(sels, k + 1, base)
                      ELSE [threw |-> FALSE, value |-> Str(u.value)]
             ELSE getNextPageUrl(sels, k + 1, base)

\* what a pagination selector can give
NextPageOutcomes ==
    {NoMatch, Raises, Found(Null), Found(Str(<<>>))} \cup {Found(Str(h)) : h \in Hrefs}

NextProbes ==
    {[kind |-> "next", sels |-> sels, done |-> FALSE, result |-> Null] :
        sels \in SeqsUpTo(NextPageOutcomes, MaxSelectors)}

\* handleSearchResults, lines 681-689, in the handler of the start request:
\* const nextPageUrl = await getNextPageUrl(page, log); if (nextPageUrl)
\* await enqueueLinks({ urls: [nextPageUrl], label: 'LIST', userData })
ApplyGetNextPageUrl ==
    /\ probe.kind = "next" /\ ~probe.done
    /\ LET r == getNextPageUrl(probe.sels, 1, pageUrlOf(requests[1]))
       IN  /\ probe' = [probe EXCEPT !.done = TRUE, !.result = r]
           /\ requests' = IF ~r.threw /\ Truthy(r.value)
                          THEN enqueueLinks(requests, <<r.value[2]>>, 1, "LIST",
                                            pageNumOf(requests[1]) + 1, 1)
                          ELSE requests
    /\ UNCHANGED <<seenUrls, statsVars, dataset, fetched, handled, inflight, phase,
                   combined, dedupLog, detailEnqueues, reclaimed, pushedBy, exports,
                   config, faults>>

\* white space as String.prototype.trim sees it
WhiteSpace == {" ", "\n"}

\* s.trim(): s without its leading and trailing white space
RECURSIVE trimStart(_)
trimStart(s) == IF s # <<>> /\ s[1] \in WhiteSpace THEN trimStart(Tail(s)) ELSE s
RECURSIVE trimEnd(_)
trimEnd(s) ==
    IF s # <<>> /\ s[Len(s)] \in WhiteSpace THEN trimEnd(SubSeq(s, 1, Len(s) - 1)) ELSE s
trim(s) == trimEnd(trimStart(s))

\* safeText with the test if (text) and the text returned as read
RECURSIVE safeTextOfUntrimmed(_, _)
safeTextOfUntrimmed(sels, k) ==
    IF k > Len(sels) THEN [threw |-> FALSE, value |-> Null]
    ELSE LET o == sels[k]
         IN  IF o.kind = "found" /\ o.v # Null /\ o.v[2] # <<>>
             THEN [threw |-> FALSE, value |-> o.v]
             ELSE safeTextOfUntrimmed(sels, k + 1)

\* safeText(page, selectors), lines 780-791: the selectors in order; for each,
\* inside one try, page.$, textContent(), if (text?.trim()) return text.trim();
\* a rejection is caught and the next selector tried; null after the last
RECURSIVE safeTextOf(_, _)
safeTextOf(sels, k) ==
    IF k > Len(sels) THEN [threw |-> FALSE, value |-> Null]
    ELSE LET o == sels[k]
         IN  IF o.kind = "found" /\ o.v # Null /\ trim(o.v[2]) # <<>>
             THEN [threw |-> FALSE, value |-> Str(trim(o.v[2]))]
             ELSE safeTextOf(sels, k + 1)

\* what textContent() of a matched element can be
Texts == {<<>>, <<" ", "\n">>, <<"\n", "BMW", " ", "320d", " ">>, <<"Audi">>}

\* what a text selector can give
TextOutcomes == {NoMatch, Raises, Found(Null)} \cup {Found(Str(t)) : t \in Texts}

TextProbes ==
    {[kind |-> "text", sels |-> sels, done |-> FALSE, result |-> Null] :
        sels \in SeqsUpTo(TextOutcomes, MaxSelectors)}

\* await safeText(page, selectors)
ApplySafeText ==
    /\ probe.kind = "text" /\ ~probe.done
    /\ probe' = [probe EXCEPT !.done = TRUE, !.result = safeTextOf(probe.sels, 1)]
    /\ UNCHANGED crawlVars

\* spans of the price card of the pages drawn for extractPrice on its own
MaxSpans == 3

\* [...new Set(xs)]: the elements of xs, each at its first occurrence
RECURSIVE uniqueOf(_)
uniqueOf(xs) ==
    IF xs = <<>> THEN <<>>
    ELSE LET init == uniqueOf(SubSeq(xs, 1, Len(xs) - 1))
             x == xs[Len(xs)]
         IN  IF \E n \in 1..Len(init) : init[n] = x THEN init ELSE Append(init, x)

\* runs of the characters [\d.]
NumberRuns == {"15.470", "14.990", "13.000", "99"}

\* s.match(/[\d.]+\s*€/) tried at position i: the end of the match, 0 for none
RECURSIVE skipWhile(_, _, _)
skipWhile(s, i, C) == IF i <= Len(s) /\ s[i] \in C THEN skipWhile(s, i + 1, C) ELSE i
priceMatchEnd(s, i) ==
    IF i > Len(s) \/ s[i] \notin NumberRuns THEN 0
    ELSE LET k == skipWhile(s, skipWhile(s, i, NumberRuns), WhiteSpace)
         IN  IF k <= Len(s) /\ s[k] = "€" THEN k ELSE 0

\* s.match(/[\d.]+\s*€/)?.[0]: the leftmost match, Null for none
RECURSIVE priceMatchFrom(_, _)
priceMatchFrom(s, i) ==
    IF i > Len(s) THEN Null
    ELSE IF priceMatchEnd(s, i) # 0 THEN Str(SubSeq(s, i, priceMatchEnd(s, i)))
         ELSE priceMatchFrom(s, i + 1)
priceMatch(s) == priceMatchFrom(s, 1)

\* the loop over priceEls: el.textContent?.trim() ?? '' of each span, kept
\* when it matches
RECURSIVE priceTextsOf(_, _)
priceTextsOf(spans, k) ==
    IF k > Len(spans) THEN <<>>
    ELSE LET text == IF spans[k] = Null THEN <<>> ELSE trim(spans[k][2])
         IN  IF priceMatch(text) # Null
             THEN <<text>> \o priceTextsOf(spans, k + 1)
             ELSE priceTextsOf(spans, k + 1)

\* extractPrice with the two prices assigned the other way round
extractPriceOfSwapped(page) ==
    LET unique == uniqueOf(priceTextsOf(page.spans, 1))
        prices == IF Len(unique) >= 2
                  THEN [current |-> Str(unique[1]), original |-> Str(unique[2])]
                  ELSE IF Len(unique) = 1
                  THEN [current |-> Str(unique[1]), original |-> Null]
                  ELSE [current |-> Null, original |-> Null]
        primary == IF page.evalRejects THEN [current |-> Null, original |-> Null]
                   ELSE prices
        o == page.fallback
        m == IF o.kind = "found" /\ o.v # Null THEN priceMatch(o.v[2]) ELSE Null
    IN  [threw |-> FALSE,
         value |-> IF ~Truthy(primary.current) /\ m # Null
                   THEN [primary EXCEPT !.current = Str(trim(m[2]))]
                   ELSE primary]

\* extractPrice(page), lines 798-845.  Primary: inside a try, page.evaluate
\* collects the matching span texts, unique = [...new Set(priceTexts)]; with
\* two or more, original = unique[0] and current = unique[1]; with one,
\* current = unique[0]; truthy values are copied into result.  Fallback, when
\* result.current is still empty: inside a try, page.$('.font-weight-bold
\* span'), textContent(), match; current = match[0].trim()
extractPriceOf(page) ==
    LET unique == uniqueOf(priceTextsOf(page.spans, 1))
        prices == IF Len(unique) >= 2
                  THEN [current |-> Str(unique[2]), original |-> Str(unique[1])]
                  ELSE IF Len(unique) = 1
                  THEN [current |-> Str(unique[1]), original |-> Null]
                  ELSE [current |-> Null, original |-> Null]
        primary == IF page.evalRejects THEN [current |-> Null, original |-> Null]
                   ELSE [current |-> IF Truthy(prices.current) THEN prices.current ELSE Null,
                         original |-> IF Truthy(prices.original) THEN prices.original ELSE Null]
        o == page.fallback
        m == IF o.kind = "found" /\ o.v # Null THEN priceMatch(o.v[2]) ELSE Null
    IN  [threw |-> FALSE,
         value |-> IF ~Truthy(primary.current) /\ m # Null
                   THEN [primary EXCEPT !.current = Str(trim(m[2]))]
                   ELSE primary]

\* textContent of the spans of the price card
SpanTexts ==
    {Null, Str(<<"Cena">>), Str(<<"15.470", " ", "€">>),
     Str(<<"\n", "15.470", " ", "€", " ">>), Str(<<"14.990", "€">>), Str(<<"13.000", "€">>)}

\* what page.$('.font-weight-bold span') and its textContent() can give
FallbackOutcomes ==
    {NoMatch, Raises, Found(Null), Found(Str(<<"Cena">>)),
     Found(Str(<<"od", " ", "99", " ", "€", " ", "na", " ", "mesec">>))}

PriceProbes ==
    {[kind |-> "price",
      page |-> [spans |-> spans, evalRejects |-> rej, fallback |-> fb],
      done |-> FALSE, result |-> Null] :
        spans \in SeqsUpTo(SpanTexts, MaxSpans), rej \in BOOLEAN, fb \in FallbackOutcomes}

\* const price = await extractPrice(page)
ApplyExtractPrice ==
    /\ probe.kind = "price" /\ ~probe.done
    /\ probe' = [probe EXCEPT !.done = TRUE, !.result = extractPriceOf(probe.page)]
    /\ UNCHANGED crawlVars

\* images of the pages drawn for extractImages on its own
MaxImages == 2

\* url.replace(/\/seg\//g, '/big/'): the matches are found left to right and
\* do not overlap (a match consumes both of its slashes)
RECURSIVE replaceSegment(_, _)
replaceSegment(url, seg) ==
    IF url = <<>> THEN <<>>
    ELSE IF Len(url) >= 3 /\ SubSeq(url, 1, 3) = <<"/", seg, "/">>
         THEN <<"/", "big", "/">> \o replaceSegment(SubSeq(url, 4, Len(url)), seg)
         ELSE <<url[1]>> \o replaceSegment(Tail(url), seg)

\* url.replace(/\/small\//g, '/big/').replace(/\/thumb\//g, '/big/')
normalizeImage(url) == replaceSegment(replaceSegment(url, "small"), "thumb")

\* imgs.map(src || data-src || data-full || '').filter(Boolean)
nonEmptyOf(xs) == SelectSeq(xs, LAMBDA x : x # <<>>)

\* extractImages(page), lines 1057-1090: inside one try the image sources are
\* pushed, then the zoom links; a rejecting $$eval ends the try with what was
\* pushed before; the result is [...new Set(images)].map(normalize)
extractImagesOf(page) ==
    LET images == IF page.rejects = "imgs" THEN <<>>
                  ELSE IF page.rejects = "zoom" THEN nonEmptyOf(page.imgs)
                  ELSE nonEmptyOf(page.imgs) \o nonEmptyOf(page.zoom)
        unique == uniqueOf(images)
    IN  [threw |-> FALSE, value |-> [n \in 1..Len(unique) |-> normalizeImage(unique[n])]]

\* image sources: one picture in its three sizes, another picture, a path
\* with two size segments in a row, an image without source
ImageSmall == <<"images.avto.net", "/", "small", "/", "1.jpg">>
ImageThumb == <<"images.avto.net", "/", "thumb", "/", "1.jpg">>
ImageBig == <<"images.avto.net", "/", "big", "/", "1.jpg">>
ImageOther == <<"images.avto.net", "/", "small", "/", "2.jpg">>
ImageNested == <<"images.avto.net", "/", "small", "/", "small", "/", "1.jpg">>
ImageSrcs == {ImageSmall, ImageThumb, ImageBig, ImageOther, ImageNested, <<>>}
\* hrefs of the zoom links
ZoomHrefs == {ImageBig}

ImageProbes ==
    {[kind |-> "images",
      page |-> [imgs |-> imgs, zoom |-> zoom, rejects |-> rej],
      done |-> FALSE, result |-> Null] :
        imgs \in SeqsUpTo(ImageSrcs, MaxImages), zoom \in SeqsUpTo(ZoomHrefs, 1),
        rej \in {"none", "imgs", "zoom"}}

\* data.images = await extractImages(page)
ApplyExtractImages ==
    /\ probe.kind = "images" /\ ~probe.done
    /\ probe' = [probe EXCEPT !.done = TRUE, !.result = extractImagesOf(probe.page)]
    /\ UNCHANGED crawlVars

\* table cells of the pages drawn for extractEquipment on its own
MaxCells == 2

\* text.split('\n'): the pieces of text between line feeds
RECURSIVE splitLines(_)
splitLines(text) ==
    LET n == skipWhile(text, 1, {c \in {text[k] : k \in 1..Len(text)} : c # "\n"})
    IN  IF n > Len(text) THEN <<text>>
        ELSE <<SubSeq(text, 1, n - 1)>> \o splitLines(SubSeq(text, n + 1, Len(text)))

\* the lines of one cell: cell.textContent?.trim() ?? '', split, each piece
\* trimmed
RECURSIVE trimAll(_, _)
trimAll(pieces, k) ==
    IF k > Len(pieces) THEN <<>> ELSE <<trim(pieces[k])>> \o trimAll(pieces, k + 1)
cellLines(cell) == trimAll(splitLines(IF cell = Null THEN <<>> ELSE trim(cell[2])), 1)

\* the lines of the cells of the tables whose first row mentions Oprema, in
\* document order
RECURSIVE equipmentLines(_, _)
equipmentLines(cells, k) ==
    IF k > Len(cells) THEN <<>>
    ELSE IF cells[k].inOprema
         THEN cellLines(cells[k].text) \o equipmentLines(cells, k + 1)
         ELSE equipmentLines(cells, k + 1)

\* extractEquipment with the filter l.length > 1
extractEquipmentOfShortLines(page) ==
    LET keep(l) == Len(l) > 1 /\ l[Len(l)] # ":"
        equipment == IF page.evalRejects THEN <<>>
                     ELSE SelectSeq(equipmentLines(page.cells, 1), keep)
    IN  [threw |-> FALSE, value |-> nonEmptyOf(uniqueOf(equipment))]

\* extractEquipment(page), lines 1018-1051: inside a try, page.evaluate
\* gives the lines with l.length > 2 && !l.endsWith(':') (filtered cell by
\* cell, which keeps the same lines in the same order as filtering them all);
\* the result is [...new Set(equipment)].filter(Boolean), [] when evaluate
\* rejects
extractEquipmentOf(page) ==
    LET keep(l) == Len(l) > 2 /\ l[Len(l)] # ":"
        equipment == IF page.evalRejects THEN <<>>
                     ELSE SelectSeq(equipmentLines(page.cells, 1), keep)
    IN  [threw |-> FALSE, value |-> nonEmptyOf(uniqueOf(equipment))]

\* textContent of a table cell, character by character
CellTexts ==
    {Null,
     Str(<<" ", "A", "B", "S", " ", "\n", "V", "a", "r", ":", " ", "\n", "E", "S", "P", "\n",
           "A", "B", "\n", "A", "B", "S">>),
     Str(<<"E", "S", "P", "\n", "\n", "4", "x", "4", "\n", ":">>),
     Str(<<"A", "B", "S">>)}

EquipmentProbes ==
    {[kind |-> "equipment",
      page |-> [cells |-> cells, evalRejects |-> rej],
      done |-> FALSE, result |-> Null] :
        cells \in SeqsUpTo({[text |-> t, inOprema |-> b] : t \in CellTexts, b \in BOOLEAN},
                           MaxCells),
        rej \in BOOLEAN}

\* data.equipment = await extractEquipment(page)
ApplyExtractEquipment ==
    /\ probe.kind = "equipment" /\ ~probe.done
    /\ probe' = [probe EXCEPT !.done = TRUE, !.result = extractEquipmentOf(probe.page)]
    /\ UNCHANGED crawlVars

InitHelpers ==
    /\ CrawlInit
    /\ config = Config(MaxConcurrency, 0, MaxPages)
    /\ faults = 0
    /\ probe \in NextProbes \cup TextProbes \cup PriceProbes \cup ImageProbes
                 \cup EquipmentProbes

NextHelpers ==
    \/ ApplyGetNextPageUrl
    \/ ApplySafeText
    \/ ApplyExtractPrice
    \/ ApplyExtractImages
    \/ ApplyExtractEquipment

SpecHelpers == InitHelpers /\ [][NextHelpers]_vars

\* the first selector of sels, from k on, that found an element with a
\* non-empty href; 0 when there is none
RECURSIVE firstWithHref(_, _)
firstWithHref(sels, k) ==
    IF k > Len(sels) THEN 0
    ELSE IF sels[k].kind = "found" /\ sels[k].v[1] = "str" /\ sels[k].v[2] # <<>>
         THEN k ELSE firstWithHref(sels, k + 1)

\* the same, counting only hrefs that new URL accepts
RECURSIVE firstWithUrl(_, _, _)
firstWithUrl(sels, k, base) ==
    IF k > Len(sels) THEN 0
    ELSE IF /\ sels[k].kind = "found" /\ sels[k].v[1] = "str" /\ sels[k].v[2] # <<>>
            /\ ~newURL(sels[k].v[2], base).threw
         THEN k ELSE firstWithUrl(sels, k + 1, base)

nextDone == probe # <<>> /\ probe.kind = "next" /\ probe.done
startPageUrl == pageUrlOf(Request(R1, "START", 0, 0, 0))

\* a null result schedules no LIST request and counts no error; a URL is
\* scheduled as a LIST request
nextScheduling ==
    /\ errors = 0
    /\ probe.result.value = Null => Len(requests) = 1
    /\ probe.result.value # Null =>
          /\ Len(requests) = 2
          /\ requests[2].label = "LIST" /\ requests[2].url = probe.result.value[2]
          /\ requests[2].pageNum = 2

\* C26 (as claimed): getNextPageUrl never throws; it returns the href of the
\* first selector, in list order, that matches an element with a non-empty
\* href, resolved against the page URL, and null when no selector has one; a
\* null result schedules no LIST request and leaves errors unchanged.
C26_FirstHref ==
    nextDone =>
        LET k == firstWithHref(probe.sels, 1)
        IN  /\ ~probe.result.threw
            /\ k = 0 => probe.result.value = Null
            /\ k # 0 => /\ probe.result.value # Null
                        /\ ~newURL(probe.sels[k].v[2], startPageUrl).threw =>
                              probe.result.value =
                                  Str(newURL(probe.sels[k].v[2], startPageUrl).value)
            /\ nextScheduling

\* C26 (amended): as above, with the first selector whose non-empty href can
\* be resolved against the page URL; a selector whose href is no URL is
\* skipped like one that matches nothing.
C26_FirstResolvableHref ==
    nextDone =>
        LET k == firstWithUrl(probe.sels, 1, startPageUrl)
        IN  /\ ~probe.result.threw
            /\ k = 0 => probe.result.value = Null
            /\ k # 0 => probe.result.value =
                            Str(newURL(probe.sels[k].v[2], startPageUrl).value)
            /\ probe.result.value \in
                  {Null, Str(<<SiteOrigin, SiteDir, "results.asp", "?", "stran", "=", "2">>),
                   Str(<<SiteOrigin, SiteDir, "results.asp", "?", "stran", "=", "3">>)}
            /\ nextScheduling

\* the first selector raises, the second has an href that is no URL, the
\* third a relative href: its absolute URL is returned and scheduled
C26_Witness ==
    /\ nextDone
    /\ probe.sels = <<Raises, Found(Str(HrefInvalid)), Found(Str(HrefRelative))>>
    /\ probe.result.value = Str(HrefFull)
    /\ Len(requests) = 2 /\ requests[2].url = HrefFull

\* the selector found an element whose text has a character that is not
\* white space
hasText(o) ==
    /\ o.kind = "found" /\ o.v[1] = "str"
    /\ \E n \in 1..Len(o.v[2]) : o.v[2][n] \notin WhiteSpace

\* t is s without its leading and trailing white space
isTrimOf(t, s) ==
    /\ t # <<>> /\ t[1] \notin WhiteSpace /\ t[Len(t)] \notin WhiteSpace
    /\ \E a \in 0..Len(s) :
          /\ a + Len(t) <= Len(s)
          /\ \A n \in 1..Len(t) : t[n] = s[a + n]
          /\ \A n \in 1..Len(s) : (n <= a \/ n > a + Len(t)) => s[n] \in WhiteSpace

\* C27: safeText never throws; its result is the trimmed text of the first
\* selector, in list order, whose element exists and has text that is not
\* empty after trimming; selectors that match nothing, give only white space
\* or raise are skipped; the result is null when every selector is skipped.
C27_FirstText ==
    (probe # <<>> /\ probe.kind = "text" /\ probe.done) =>
        LET S == {k \in 1..Len(probe.sels) : hasText(probe.sels[k])}
        IN  /\ ~probe.result.threw
            /\ S = {} => probe.result.value = Null
            /\ S # {} =>
                  LET k == CHOOSE x \in S : \A y \in S : x <= y
                  IN  /\ probe.result.value[1] = "str"
                      /\ isTrimOf(probe.result.value[2], probe.sels[k].v[2])

\* the first selector raises, the second gives white space only, the third
\* a text with white space around it
C27_Witness ==
    /\ probe # <<>> /\ probe.kind = "text" /\ probe.done
    /\ probe.sels = <<Raises, Found(Str(<<" ", "\n">>)),
                      Found(Str(<<"\n", "BMW", " ", "320d", " ">>))>>
    /\ probe.result.value = Str(<<"BMW", " ", "320d">>)

priceDone == probe # <<>> /\ probe.kind = "price" /\ probe.done

\* the spans of the price card whose trimmed text is a price text
priceSpans ==
    {k \in 1..Len(probe.page.spans) :
        /\ probe.page.spans[k] # Null
        /\ priceMatch(trim(probe.page.spans[k][2])) # Null}
priceTextAt(k) == trim(probe.page.spans[k][2])
\* the distinct price texts the price card exposes
distinctPriceTexts == {priceTextAt(k) : k \in priceSpans}
\* the first price text, and the first one that differs from it
firstPriceText == priceTextAt(CHOOSE k \in priceSpans : \A j \in priceSpans : k <= j)
secondPriceText ==
    LET S == {k \in priceSpans : priceTextAt(k) # firstPriceText}
    IN  priceTextAt(CHOOSE k \in S : \A j \in S : k <= j)

\* C28 (as claimed): on a page whose price card is read, two distinct price
\* texts give original = the first and current = the second; exactly one
\* gives current alone, original null; none gives current and original null.
C28_PriceByCount ==
    (priceDone /\ ~probe.page.evalRejects) =>
        LET n == Cardinality(distinctPriceTexts)
            r == probe.result.value
        IN  /\ n = 2 => r = [current |-> Str(secondPriceText), original |-> Str(firstPriceText)]
            /\ n = 1 => r = [current |-> Str(firstPriceText), original |-> Null]
            /\ n = 0 => r = [current |-> Null, original |-> Null]

\* C28 (amended): extractPrice never throws.  Two or more distinct price
\* texts give original = the first and current = the second; exactly one
\* gives current alone.  With none, or when the read of the price card
\* rejects, original is null and current is the price-like part of the text
\* of the fallback element, null when that element is missing, has no such
\* part, or its read rejects.
C28_PriceWithFallback ==
    priceDone =>
        LET n == IF probe.page.evalRejects THEN 0 ELSE Cardinality(distinctPriceTexts)
            r == probe.result.value
            fb == probe.page.fallback
        IN  /\ ~probe.result.threw
            /\ n >= 2 => r = [current |-> Str(secondPriceText), original |-> Str(firstPriceText)]
            /\ n = 1 => r = [current |-> Str(firstPriceText), original |-> Null]
            /\ n = 0 =>
                  /\ r.original = Null
                  /\ r.current = IF fb = Found(Str(<<"od", " ", "99", " ", "€", " ", "na", " ", "mesec">>))
                                 THEN Str(<<"99", " ", "€">>) ELSE Null

\* the price card shows the regular price twice (once padded) and then the
\* lower price: original is the regular price, current the lower one
C28_Witness ==
    /\ priceDone /\ ~probe.page.evalRejects
    /\ probe.page.spans = <<Str(<<"\n", "15.470", " ", "€", " ">>), Str(<<"15.470", " ", "€">>),
                            Str(<<"14.990", "€">>)>>
    /\ probe.result.value = [current |-> Str(<<"14.990", "€">>),
                             original |-> Str(<<"15.470", " ", "€">>)]

imagesDone == probe # <<>> /\ probe.kind = "images" /\ probe.done

\* url has a path segment seg between two slashes
hasSegment(url, seg) ==
    \E n \in 1..(Len(url) - 2) : SubSeq(url, n, n + 2) = <<"/", seg, "/">>

\* C29 (as claimed): no URL that extractImages returns has a /thumb/ or a
\* /small/ segment; normalizing a returned URL again changes nothing; and the
\* returned list holds no URL twice.
C29_NormalizedUnique ==
    imagesDone =>
        LET out == probe.result.value
        IN  /\ \A n \in 1..Len(out) :
                  /\ ~hasSegment(out[n], "small") /\ ~hasSegment(out[n], "thumb")
                  /\ normalizeImage(out[n]) = out[n]
            /\ \A m, n \in 1..Len(out) : out[m] = out[n] => m = n

equipmentDone == probe # <<>> /\ probe.kind = "equipment" /\ probe.done

\* every line of the equipment tables of the page, trimmed, in document order
allLines == equipmentLines(probe.page.cells, 1)
\* the place of the first occurrence of line l in lines
firstAt(lines, l) == CHOOSE n \in 1..Len(lines) : lines[n] = l /\ \A m \in 1..(n - 1) : lines[m] # l

\* C30: the list extractEquipment returns has no line twice, no line shorter
\* than 3 characters and no line ending in ':'; it holds exactly the other
\* lines of the equipment tables, in the order of their first occurrence.
C30_EquipmentLines ==
    equipmentDone =>
        LET out == probe.result.value
            lines == IF probe.page.evalRejects THEN <<>> ELSE allLines
            wanted == {lines[n] : n \in {m \in 1..Len(lines) :
                          Len(lines[m]) >= 3 /\ lines[m][Len(lines[m])] # ":"}}
        IN  /\ ~probe.result.threw
            /\ \A m, n \in 1..Len(out) : out[m] = out[n] => m = n
            /\ \A n \in 1..Len(out) : Len(out[n]) >= 3 /\ out[n][Len(out[n])] # ":"
            /\ {out[n] : n \in 1..Len(out)} = wanted
            /\ \A m, n \in 1..Len(out) :
                  m < n => firstAt(lines, out[m]) < firstAt(lines, out[n])

\* a cell with a repeated item, a heading, a two-letter line and padding,
\* followed by a cell that repeats an item and adds one
C30_Witness ==
    /\ equipmentDone /\ ~probe.page.evalRejects
    /\ Len(probe.page.cells) = 2
    /\ \A k \in 1..2 : probe.page.cells[k].inOprema
    /\ probe.page.cells[1].text =
          Str(<<" ", "A", "B", "S", " ", "\n", "V", "a", "r", ":", " ", "\n", "E", "S", "P", "\n",
                "A", "B", "\n", "A", "B", "S">>)
    /\ probe.page.cells[2].text = Str(<<"E", "S", "P", "\n", "\n", "4", "x", "4", "\n", ":">>)
    /\ probe.result.value = <<<<"A", "B", "S">>, <<"E", "S", "P">>, <<"4", "x", "4">>>>

====
